---------------------------- MODULE Spec2Model ----------------------------
(***************************************************************************)
(* Model of the marketing-ai-backend chat gateway: the chat route          *)
(* (src/routes/chat.ts, kept in src/unnamed/part_000 from line 717) and    *)
(* the tool registry (src/services/toolIntegration.ts, kept in             *)
(* src/unnamed/part_004).                                                  *)
(*                                                                         *)
(* Text.  TLC has no character operations, so a string is modelled as the  *)
(* sequence of its maximal runs: a run of word characters (\w+, a word of  *)
(* the vocabulary), a run of white space (" " is one space, "  " a longer  *)
(* run) or a punctuation character.  A regular expression of the source    *)
(* is translated to an operator on such sequences: \bword\b is "some run   *)
(* equals word", an unanchored alternative is "some run contains it"       *)
(* (tables Sub, Pre, Suf list, for every word of the vocabulary, the       *)
(* patterns of the source it contains, starts with and ends with).         *)
(*                                                                         *)
(* Time.  Date.now() is the variable now; the two time-to-live constants   *)
(* and the two cache capacities are scaled down so that expiry and         *)
(* eviction happen within a few requests.                                  *)
(***************************************************************************)
EXTENDS Integers, Sequences, FiniteSets, TLC

VARIABLES
    now,                   \* Date.now(), in ticks
    env,                   \* process.env: the set of providers whose API key is set
    corpus,                \* PROMPT_INDEX.docs, loaded once at boot
    preferredProvider,     \* chat.ts module variable
    responseCache,         \* chat.ts Map, as the sequence of its entries in insertion order
    promptRetrievalCache,  \* chat.ts Map, same representation
    hist,                  \* what each handled request did and answered, oldest first
    toolRun,               \* what the last direct runToolByName call did
    applied,               \* the last call of a function of the source made on its own
    inflight,              \* the calls of answerFromAnyProvider begun so far, each where it stands
    agent,                 \* the call of runMarketingAgent: where it stands and what it did
    metrics                \* metrics.ts: byEndpoint, totalRequests and totalErrors

vars ==
    <<now, env, corpus, preferredProvider, responseCache, promptRetrievalCache, hist, toolRun,
      applied, inflight, agent, metrics>>

-----------------------------------------------------------------------------
(* Bounds of the model *)

MaxTime == 3
MaxChats == 3
MaxRouteChats == 1

(* Scaled program constants: 25 s and 10 min become ticks, 1000 and 5000   *)
(* entries become a handful.                                               *)
RESPONSE_CACHE_TTL_MS == 2
PROMPT_RETRIEVAL_TTL_MS == 3
MAX_RESPONSE_CACHE == 2
MAX_PROMPT_RETRIEVAL_CACHE == 1

-----------------------------------------------------------------------------
(* Text layer *)

Sp == " "
Sp2 == "  "
Apos == "'"

IsSpace(t) == t \in {Sp, Sp2}

ToLower(t) ==
    CASE t = "Run" -> "run"
      [] t = "What" -> "what"
      [] OTHER -> t

\* The patterns of the source that occur inside each word of the vocabulary.
Sub(w) ==
    CASE w = "get_meta_spend_today" -> {"day", "meta", "spend", "today"}
      [] w = "spend" -> {"spend"}
      [] w = "today" -> {"day", "today"}
      [] w = "month" -> {"month"}
      [] w = "days" -> {"day", "days"}
      [] w = "meta" -> {"meta"}
      [] w = "improve" -> {"improve"}
      [] w = "lead" -> {"ad", "lead"}
      [] w = "quality" -> {"quality"}
      [] w = "reduce" -> {"reduce"}
      [] w = "cpl" -> {"cpl"}
      [] w = "where" -> {"where"}
      [] w = "budget" -> {"budget"}
      [] w = "wasted" -> {"wast"}
      [] w = "best" -> {"best"}
      [] w = "campaign" -> {"campaign"}
      [] w = "ga4" -> {"ga4"}
      [] w = "sessions" -> {"session", "sessions"}
      [] w = "leads" -> {"ad", "ads", "lead", "leads"}
      [] w = "hours" -> {"hour"}
      [] w = "seo" -> {"seo"}
      [] w = "add" -> {"ad"}
      [] w = "yesterday" -> {"day", "yesterday"}
      [] OTHER -> {}

\* The patterns each word starts with.
Pre(w) ==
    CASE w = "spend" -> {"spend"}
      [] w = "today" -> {"today"}
      [] w = "month" -> {"month"}
      [] w = "days" -> {"day", "days"}
      [] w = "meta" -> {"meta"}
      [] w = "improve" -> {"improve"}
      [] w = "lead" -> {"lead"}
      [] w = "quality" -> {"quality"}
      [] w = "reduce" -> {"reduce"}
      [] w = "cpl" -> {"cpl"}
      [] w = "where" -> {"where"}
      [] w = "budget" -> {"budget"}
      [] w = "wasted" -> {"wast"}
      [] w = "best" -> {"best"}
      [] w = "campaign" -> {"campaign"}
      [] w = "ga4" -> {"ga4"}
      [] w = "sessions" -> {"session", "sessions"}
      [] w = "leads" -> {"lead", "leads"}
      [] w = "hours" -> {"hour"}
      [] w = "seo" -> {"seo"}
      [] w = "add" -> {"ad"}
      [] w = "yesterday" -> {"yesterday"}
      [] OTHER -> {}

\* The patterns each word ends with.
Suf(w) ==
    CASE w = "get_meta_spend_today" -> {"day", "today"}
      [] w = "spend" -> {"spend"}
      [] w = "today" -> {"day", "today"}
      [] w = "month" -> {"month"}
      [] w = "days" -> {"days"}
      [] w = "meta" -> {"meta"}
      [] w = "improve" -> {"improve"}
      [] w = "lead" -> {"ad", "lead"}
      [] w = "quality" -> {"quality"}
      [] w = "reduce" -> {"reduce"}
      [] w = "cpl" -> {"cpl"}
      [] w = "where" -> {"where"}
      [] w = "budget" -> {"budget"}
      [] w = "best" -> {"best"}
      [] w = "campaign" -> {"campaign"}
      [] w = "ga4" -> {"ga4"}
      [] w = "sessions" -> {"sessions"}
      [] w = "leads" -> {"ads", "leads"}
      [] w = "seo" -> {"seo"}
      [] w = "yesterday" -> {"day", "yesterday"}
      [] OTHER -> {}

\* The decimal number a run of digits denotes, -1 for any other run.
DigitsOf(w) ==
    CASE w = "3" -> 3
      [] w = "4" -> 4
      [] w = "5" -> 5
      [] OTHER -> -1

\* The digits a word ends with (\d+ needs no word boundary), -1 when it ends with none.
TrailingDigits(w) ==
    CASE w = "ga4" -> 4
      [] OTHER -> DigitsOf(w)

\* /\b(p1|p2)\b/ : some run is one of the words P.
HasWord(m, P) == \E i \in 1..Len(m) : m[i] \in P

\* /p1|p2/ and m.includes(p) for a one-word p: some run contains one of P.
HasSub(m, P) == \E i \in 1..Len(m) : Sub(m[i]) \cap P # {}

\* /\bp/ : some word starts with one of P.
HasPre(m, P) == \E i \in 1..Len(m) : Pre(m[i]) \cap P # {}

\* /p\b/ : some word ends with one of P.
HasSuf(m, P) == \E i \in 1..Len(m) : Suf(m[i]) \cap P # {}

\* m.includes("a b") : a ends a word, one space follows, b starts the next word.
HasPhrase(m, a, b) ==
    \E i \in 1..Len(m) :
        /\ i + 2 <= Len(m)
        /\ a \in Suf(m[i])
        /\ m[i + 1] = Sp
        /\ b \in Pre(m[i + 2])

\* m.includes("a n b") for a number n in the middle, as in "last 7 days".
HasPhrase3(m, a, n, b) ==
    \E i \in 1..Len(m) :
        /\ i + 4 <= Len(m)
        /\ a \in Suf(m[i])
        /\ m[i + 1] = Sp
        /\ m[i + 2] = n
        /\ m[i + 3] = Sp
        /\ b \in Pre(m[i + 4])

\* /(A).*(B)/ : an occurrence of one of A, later an occurrence of one of B.
HasThen(m, A, B) ==
    \E i, j \in 1..Len(m) : i < j /\ Sub(m[i]) \cap A # {} /\ Sub(m[j]) \cap B # {}

\* /(a)\s+(B)/ : a ends a word, white space follows, one of B starts the next word.
HasSpaced(m, a, B) ==
    \E i \in 1..Len(m) :
        /\ i + 2 <= Len(m)
        /\ a \in Suf(m[i])
        /\ IsSpace(m[i + 1])
        /\ Pre(m[i + 2]) \cap B # {}

RECURSIVE TrimStart(_)
TrimStart(m) == IF m # <<>> /\ IsSpace(Head(m)) THEN TrimStart(Tail(m)) ELSE m

RECURSIVE TrimEnd(_)
TrimEnd(m) ==
    IF m # <<>> /\ IsSpace(m[Len(m)]) THEN TrimEnd(SubSeq(m, 1, Len(m) - 1)) ELSE m

\* String.prototype.trim
Trim(m) == TrimEnd(TrimStart(m))

\* The one-word rewrites of normalizeMessage, each a /\bword\b/g replace.
RewriteWord(w) ==
    CASE w = "add" -> "ad"
      [] w = "adds" -> "ads"
      [] w = "spen" -> "spend"
      [] w = "spnd" -> "spend"
      [] w = "montly" -> "monthly"
      [] w \in {"monht", "monhth"} -> "month"
      [] w = "mnth" -> "month"
      [] w = "tdy" -> "today"
      [] w \in {"ystday", "ystrday"} -> "yesterday"
      [] w = "yday" -> "yesterday"
      [] w = "yest" -> "yesterday"
      [] w = "instgram" -> "instagram"
      [] OTHER -> w

\* .replace(/\ba ?b\b/g, ab): the words a and b with exactly one space between them
\* become the word ab ("ga 4" -> "ga4", "insta gram" -> "instagram").
RECURSIVE JoinPair(_, _, _, _)
JoinPair(m, a, b, ab) ==
    IF Len(m) < 3 THEN m
    ELSE IF m[1] = a /\ m[2] = Sp /\ m[3] = b
         THEN <<ab>> \o JoinPair(SubSeq(m, 4, Len(m)), a, b, ab)
         ELSE <<m[1]>> \o JoinPair(Tail(m), a, b, ab)

\* .replace(/\s+/g, " ")
CollapseSpaces(m) == [i \in 1..Len(m) |-> IF IsSpace(m[i]) THEN Sp ELSE m[i]]

normalizeMessage(message) ==
    LET lower == [i \in 1..Len(message) |-> ToLower(message[i])]
        words == [i \in 1..Len(lower) |-> RewriteWord(lower[i])]
        ga4 == JoinPair(words, "ga", "4", "ga4")
        insta == JoinPair(ga4, "insta", "gram", "instagram")
    IN  Trim(CollapseSpaces(insta))

-----------------------------------------------------------------------------
(* Intent predicates of chat.ts *)

\* Array.from(new Set(...)): the elements of s in first-occurrence order.
RECURSIVE Dedup(_)
Dedup(s) ==
    IF s = <<>> THEN <<>>
    ELSE LET init == Dedup(SubSeq(s, 1, Len(s) - 1))
             x == s[Len(s)]
         IN  IF \E i \in 1..Len(init) : init[i] = x THEN init ELSE Append(init, x)

\* Array.prototype.slice(0, n)
Take(s, n) == SubSeq(s, 1, IF Len(s) < n THEN Len(s) ELSE n)

\* A run that ends with the digits of n (n < 100), as the "7" of "7 days".
EndsWithNum(w, n) ==
    /\ TrailingDigits(w) >= 0
    /\ TrailingDigits(w) % (IF n < 10 THEN 10 ELSE 100) = n

\* m.includes("n b") for a number n: "7 days", "30 days".
HasNumPhrase(m, n, b) ==
    \E i \in 1..Len(m) :
        /\ i + 2 <= Len(m)
        /\ EndsWithNum(m[i], n)
        /\ m[i + 1] = Sp
        /\ b \in Pre(m[i + 2])

\* The places where the phrase "a b" starts.
PhraseAt(m, a, b) ==
    {i \in 1..Len(m) : i + 2 <= Len(m) /\ a \in Suf(m[i]) /\ m[i + 1] = Sp /\ b \in Pre(m[i + 2])}

isComparisonIntent(message) ==
    LET m == normalizeMessage(message)
    IN  HasWord(m, {"compare", "comparison", "vs", "versus", "difference", "diff", "trend", "against"})

WeekWords(m) ==
    \/ HasPhrase3(m, "last", "7", "day")
    \/ HasNumPhrase(m, 7, "day")
    \/ HasPhrase(m, "last", "week")
    \/ HasSub(m, {"weekly", "week"})

\* The tools comparisonToolsForMessage collects, before .slice(0, 6).
ComparisonCandidates(message) ==
    LET m == normalizeMessage(message)
        mentionsMeta == HasWord(m, {"meta", "facebook", "ad", "ads", "campaign", "cpl", "spend", "lead"})
        mentionsGa4 ==
            \/ HasPre(m, {"ga4"})
            \/ HasPhrase(m, "active", "user")
            \/ HasSub(m, {"session", "traffic"})
            \/ HasSuf(m, {"website"})
        meta ==
            IF mentionsMeta \/ ~mentionsGa4
            THEN <<"get_meta_spend_today", "get_meta_spend_month">>
                 \o (IF HasWord(m, {"lead", "leads"}) \/ HasSub(m, {"campaign", "cpl"})
                     THEN <<"get_meta_leads_today">> ELSE <<>>)
                 \o (IF HasSub(m, {"campaign", "cpl", "best", "worst", "poor", "performance"})
                     THEN <<"get_meta_best_campaign">> ELSE <<>>)
            ELSE <<>>
        ga4 ==
            IF mentionsGa4 \/ HasPre(m, {"user"}) \/ HasSub(m, {"session", "yesterday"})
                           \/ HasSuf(m, {"traffic"})
            THEN (IF HasSub(m, {"yesterday", "user", "active"})
                  THEN <<"get_ga4_active_users_today", "get_ga4_active_users_yesterday">>
                  ELSE <<>>)
                 \o (IF WeekWords(m) /\ HasSub(m, {"user", "active"})
                     THEN <<"get_ga4_active_users_last_7_days">> ELSE <<>>)
                 \o (IF HasSub(m, {"session", "month", "monthly", "traffic"})
                     THEN <<"get_ga4_sessions_today", "get_ga4_sessions_month">> ELSE <<>>)
            ELSE <<>>
        tools == Dedup(meta \o ga4)
        filled ==
            IF tools = <<>>
            THEN <<"get_meta_spend_today", "get_meta_spend_month", "get_meta_leads_today">>
            ELSE tools
    IN  filled

\* comparisonToolsForMessage with the final .slice(0, 6) left out.
comparisonToolsForMessage_Unsliced(message) == ComparisonCandidates(message)

comparisonToolsForMessage(message) == Take(ComparisonCandidates(message), 6)


isPoorPerformanceIntent(message) ==
    LET m == normalizeMessage(message)
        negative == HasSub(m, {"poor", "worst", "bad", "weak", "underperform", "low"})
        perf == HasSub(m, {"perform", "performance", "campaign", "ad", "ads"})
    IN  negative /\ perf

isLeadQualityActionsIntent(message) ==
    LET m == normalizeMessage(message)
        leadQuality == PhraseAt(m, "lead", "quality")
        \* top\s*3 : "top" ends a word and "3" starts the next, white space between or not
        top3 == {i \in 1..Len(m) :
                    /\ "top" \in Suf(m[i])
                    /\ \/ i + 2 <= Len(m) /\ IsSpace(m[i + 1]) /\ m[i + 2] = "3"
                       \/ i + 1 <= Len(m) /\ m[i + 1] = "3"}
        action == {i \in 1..Len(m) : Sub(m[i]) \cap {"action", "actions"} # {}}
    IN  \/ \E i \in top3, j \in action, k \in leadQuality : i < j /\ j < k
        \/ \E i \in 1..Len(m), k \in leadQuality : "improve" \in Sub(m[i]) /\ i < k

isReduceCplIntent(message) ==
    LET m == normalizeMessage(message)
    IN  \/ HasThen(m, {"reduce", "lower", "improve"}, {"cpl"})
        \/ HasThen(m, {"cpl"}, {"reduce", "lower", "improve"})

isBudgetWasteIntent(message) ==
    LET m == normalizeMessage(message)
        at(P) == {i \in 1..Len(m) : Sub(m[i]) \cap P # {}}
    IN  \/ \E i \in at({"where", "which"}), j \in at({"budget"}), k \in at({"wast", "leak"}) :
               i < j /\ j < k
        \/ \E i \in at({"budget"}), j \in at({"wast", "leak"}), k \in at({"today"}) :
               i < j /\ j < k

\* The first match of /(\d+)\s*day/ or /(\d+)\s*hour|hr/: the number, or -1 when nothing matches.
RECURSIVE FirstCount(_, _)
FirstCount(m, unit) ==
    IF Len(m) < 2 THEN -1
    ELSE IF /\ TrailingDigits(m[1]) >= 0
            /\ \/ Pre(m[2]) \cap unit # {}
               \/ Len(m) >= 3 /\ IsSpace(m[2]) /\ Pre(m[3]) \cap unit # {}
         THEN TrailingDigits(m[1])
         ELSE FirstCount(Tail(m), unit)

\* parseRequestedDays with a pattern that matches nothing.
parseRequestedDays_NoMatch(message) == 0

\* null is modelled as 0: the callers test the result for truthiness only.
parseRequestedDays(message) ==
    LET days == FirstCount(message, {"day"})
    IN  IF days <= 0 \/ days > 31 THEN 0 ELSE days

parseRequestedHours(message) ==
    LET hours == FirstCount(message, {"hour", "hr"})
    IN  IF hours <= 0 \/ hours > 48 THEN 0 ELSE hours

hasSpendIntent(message) == HasWord(message, {"spend", "spen", "spent"})

hasMetaAdsIntent(message) == HasWord(message, {"meta", "facebook", "ad", "ads", "add"})

\* isMarketingIntent with a pattern that matches every word.
isMarketingIntent_AnyWord(message) ==
    \E i \in 1..Len(normalizeMessage(message)) : ~IsSpace(normalizeMessage(message)[i])

isMarketingIntent(message) ==
    LET m == normalizeMessage(message)
    IN  HasSub(m, {"meta", "ga4", "instagram", "insta", "reel", "reels", "campaign", "ad", "ads",
                   "audience", "creative", "copy", "spend", "cpl", "cpc", "cpa", "roas", "ctr",
                   "landing", "conversion", "funnel", "lead", "budget", "remarketing", "retarget"})

detectBestCampaignPeriod(message) ==
    LET m == normalizeMessage(message)
        allTime == \E i \in 1..Len(m) :
                       i + 2 <= Len(m) /\ m[i] = "all" /\ m[i + 1] = Sp /\ m[i + 2] = "time"
    IN  IF HasWord(m, {"ever", "lifetime", "maximum", "overall"}) \/ allTime THEN "maximum"
        ELSE IF HasWord(m, {"month", "monthly"}) THEN "this_month"
        ELSE "today"

InstagramWords == {"instagram", "insta", "reel", "reels"}
FollowWords == {"follower", "followers", "follow", "follows", "follw"}

\* The Instagram block shared by mapMessageToTool and inferToolFromText; "none" is null.
InstagramTool(m) ==
    IF HasSub(m, FollowWords) THEN "get_instagram_account_overview"
    ELSE IF HasSub(m, {"best", "top", "better", "perform"}) THEN "get_instagram_best_reel"
    ELSE IF HasSub(m, {"month", "monthly"}) THEN "get_instagram_reels_month"
    ELSE "get_instagram_reels_today"

ActiveUsers(m) == HasPhrase(m, "active", "user")

LastWeek(m) ==
    \/ HasPhrase3(m, "last", "7", "day")
    \/ HasNumPhrase(m, 7, "day")
    \/ HasPhrase(m, "last", "week")
    \/ HasPhrase(m, "this", "week")

mapMessageToTool(message) ==
    LET m == normalizeMessage(message)
    IN  IF HasPhrase(m, "best", "campaign") \/ (HasSub(m, {"campaign"}) /\ HasSub(m, {"best"}))
            THEN "get_meta_best_campaign"
        ELSE IF isPoorPerformanceIntent(m) THEN "get_meta_best_campaign"
        ELSE IF HasSub(m, {"leads"}) /\ HasSub(m, {"today"}) THEN "get_meta_leads_today"
        ELSE IF HasSub(m, {"leads"})
                /\ (HasPhrase3(m, "last", "30", "day") \/ HasNumPhrase(m, 30, "day")
                    \/ HasPhrase(m, "last", "month"))
            THEN "get_meta_leads_last_30d"
        ELSE IF HasSub(m, {"ad", "ads"}) /\ HasSub(m, {"running", "active"}) /\ HasSub(m, {"today"})
            THEN "get_meta_ads_running_today"
        ELSE IF hasSpendIntent(m) /\ HasSub(m, {"month", "monthly"}) THEN "get_meta_spend_month"
        ELSE IF hasSpendIntent(m) /\ HasSub(m, {"today"}) THEN "get_meta_spend_today"
        ELSE IF hasSpendIntent(m) /\ hasMetaAdsIntent(m) THEN "get_meta_spend_today"
        ELSE IF ActiveUsers(m) /\ HasSub(m, {"yesterday"}) THEN "get_ga4_active_users_yesterday"
        ELSE IF ActiveUsers(m) /\ LastWeek(m) THEN "get_ga4_active_users_last_7_days"
        ELSE IF ActiveUsers(m) /\ HasSub(m, {"today", "now"}) THEN "get_ga4_active_users_today"
        ELSE IF HasSub(m, InstagramWords) THEN InstagramTool(m)
        ELSE "none"

inferToolFromText(text) ==
    LET m == normalizeMessage(text)
        ga4Users == HasSub(m, {"ga4"}) /\ HasSub(m, {"active"}) /\ HasSub(m, {"users"})
    IN  IF HasPhrase(m, "best", "campaign") \/ (HasSub(m, {"campaign"}) /\ HasSub(m, {"best"}))
            THEN "get_meta_best_campaign"
        ELSE IF isPoorPerformanceIntent(m) THEN "get_meta_best_campaign"
        ELSE IF HasSub(m, {"meta"}) /\ HasSub(m, {"leads"}) /\ HasSub(m, {"today"})
            THEN "get_meta_leads_today"
        ELSE IF HasSub(m, {"meta"}) /\ HasSub(m, {"leads"})
                /\ (HasPhrase3(m, "last", "30", "day") \/ HasNumPhrase(m, 30, "day")
                    \/ HasPhrase(m, "last", "month"))
            THEN "get_meta_leads_last_30d"
        ELSE IF HasSub(m, {"ad", "ads"}) /\ HasSub(m, {"running", "active"}) /\ HasSub(m, {"today"})
            THEN "get_meta_ads_running_today"
        ELSE IF HasSub(m, {"spend"}) /\ HasSub(m, {"month", "monthly"}) THEN "get_meta_spend_month"
        ELSE IF HasSub(m, {"spend"}) /\ HasSub(m, {"today"}) THEN "get_meta_spend_today"
        ELSE IF ga4Users /\ HasSub(m, {"yesterday"}) THEN "get_ga4_active_users_yesterday"
        ELSE IF ga4Users /\ LastWeek(m) THEN "get_ga4_active_users_last_7_days"
        ELSE IF ga4Users THEN "get_ga4_active_users_today"
        ELSE IF HasSub(m, {"ga4"}) /\ HasSub(m, {"sessions"}) /\ HasSub(m, {"month", "monthly"})
            THEN "get_ga4_sessions_month"
        ELSE IF HasSub(m, {"ga4"}) /\ HasSub(m, {"sessions"}) THEN "get_ga4_sessions_today"
        ELSE IF HasSub(m, {"ga4"}) /\ (HasPhrase(m, "top", "pages") \/ HasPhrase(m, "top", "page"))
            THEN "get_ga4_top_pages_today"
        ELSE IF HasSub(m, InstagramWords) THEN InstagramTool(m)
        ELSE "none"

defaultToolBundleForMessage(message) ==
    LET m == normalizeMessage(message)
        ga4ActiveUsers ==
            \/ \E i \in 1..Len(m), k \in PhraseAt(m, "active", "user") : "ga4" \in Sub(m[i]) /\ i < k
            \/ \E i \in 1..Len(m), k \in PhraseAt(m, "active", "user") : "ga4" \in Sub(m[i]) /\ k + 2 < i
        tools ==
            (IF HasSub(m, {"yesterday"}) /\ ga4ActiveUsers
             THEN <<"get_ga4_active_users_yesterday">> ELSE <<>>)
            \o (IF (HasPhrase3(m, "last", "7", "day") \/ HasNumPhrase(m, 7, "day")
                    \/ HasPhrase(m, "last", "week") \/ HasPhrase(m, "this", "week")
                    \/ HasSub(m, {"week"})) /\ ga4ActiveUsers
                THEN <<"get_ga4_active_users_last_7_days">> ELSE <<>>)
            \o (IF HasSub(m, {"meta", "ad", "campaign", "spend", "lead"})
                THEN <<"get_meta_spend_today", "get_meta_leads_today">>
                     \o (IF HasSub(m, {"running", "active"})
                         THEN <<"get_meta_ads_running_today">> ELSE <<>>)
                ELSE <<>>)
            \o (IF HasSub(m, {"month", "monthly"})
                THEN <<"get_meta_spend_month", "get_ga4_sessions_month">> ELSE <<>>)
            \o (IF HasSub(m, {"ga4", "traffic", "sessions", "users", "website"})
                THEN <<"get_ga4_active_users_today", "get_ga4_sessions_today">> ELSE <<>>)
            \o (IF HasSub(m, InstagramWords)
                THEN (IF HasSub(m, FollowWords) THEN <<"get_instagram_account_overview">> ELSE <<>>)
                     \o (IF HasSub(m, {"best", "top", "better", "perform"})
                         THEN <<"get_instagram_best_reel">>
                         ELSE <<"get_instagram_reels_today">>)
                ELSE <<>>)
            \o (IF HasSub(m, {"campaign", "performance", "best", "worst", "poor", "underperform"})
                THEN <<"get_meta_best_campaign">> ELSE <<>>)
        filled ==
            IF tools = <<>>
            THEN <<"get_meta_spend_today", "get_meta_leads_today", "get_ga4_active_users_today">>
            ELSE Dedup(tools)
    IN  Take(filled, 3)

-----------------------------------------------------------------------------
(* The two Maps of chat.ts.  A Map iterates in the order in which its keys *)
(* were first inserted; set() on a present key keeps the key's place.      *)

MapIndex(map, key) ==
    IF \E i \in 1..Len(map) : map[i].key = key
    THEN CHOOSE i \in 1..Len(map) : map[i].key = key
    ELSE 0

MapHas(map, key) == MapIndex(map, key) # 0

MapGet(map, key) == map[MapIndex(map, key)]

MapSet(map, key, entry) ==
    IF MapHas(map, key)
    THEN [map EXCEPT ![MapIndex(map, key)] = entry]
    ELSE Append(map, entry)

MapDelete(map, key) ==
    LET i == MapIndex(map, key)
    IN  IF i = 0 THEN map ELSE SubSeq(map, 1, i - 1) \o SubSeq(map, i + 1, Len(map))

\* JavaScript truthiness of a string: the empty string is falsy.
Truthy(str) == str # <<>>

\* The eviction step both caches share:
\*   if (map.size > MAX) { const oldestKey = map.keys().next().value;
\*                         if (oldestKey) map.delete(oldestKey); }
EvictOldest(map, max) ==
    IF Len(map) > max
    THEN LET oldestKey == map[1].key
         IN  IF Truthy(oldestKey) THEN MapDelete(map, oldestKey) ELSE map
    ELSE map

\* getCachedResponse without the test of the entry's age.
getCachedResponse_NoExpiry(cache, key, t) ==
    IF ~MapHas(cache, key) THEN [entry |-> "none", cache |-> cache, found |-> FALSE]
    ELSE [entry |-> MapGet(cache, key), cache |-> cache, found |-> TRUE]

\* getCachedResponse stamping the entry it serves with the time of the lookup.
getCachedResponse_Touch(cache, key, t) ==
    IF ~MapHas(cache, key) THEN [entry |-> "none", cache |-> cache, found |-> FALSE]
    ELSE IF t - MapGet(cache, key).ts >= RESPONSE_CACHE_TTL_MS
         THEN [entry |-> "none", cache |-> MapDelete(cache, key), found |-> FALSE]
         ELSE [entry |-> MapGet(cache, key),
               cache |-> MapSet(cache, key, [MapGet(cache, key) EXCEPT !.ts = t]),
               found |-> TRUE]

\* getCachedResponse: the cache after the lookup and the payload found ("none" is null).
getCachedResponse(cache, key, t) ==
    IF ~MapHas(cache, key) THEN [entry |-> "none", cache |-> cache, found |-> FALSE]
    ELSE IF t - MapGet(cache, key).ts >= RESPONSE_CACHE_TTL_MS
         THEN [entry |-> "none", cache |-> MapDelete(cache, key), found |-> FALSE]
         ELSE [entry |-> MapGet(cache, key), cache |-> cache, found |-> TRUE]

setCachedResponse(cache, key, payload, t) ==
    EvictOldest(MapSet(cache, key, [key |-> key, ts |-> t, value |-> payload]), MAX_RESPONSE_CACHE)

-----------------------------------------------------------------------------
(* Retrieval over the prompt corpus *)

STOP_WORDS ==
    {"a", "an", "the", "is", "are", "was", "were", "to", "for", "of", "in", "on", "my", "me",
     "you", "your", "this", "that", "it", "and", "or", "with", "please", "can", "could",
     "would", "should", "how", "what", "show", "give"}

\* The words of the vocabulary that are one character long.
OneChar == {"s", "3", "4", "5"}

Punctuation == {Apos}

\* What .replace(/[^a-z0-9\s]/g, " ").split(/\s+/) leaves of one run: "_" is not
\* alphanumeric, so a tool name falls apart into its parts.
AlnumParts(w) ==
    IF IsSpace(w) \/ w \in Punctuation THEN <<>>
    ELSE IF w = "get_meta_spend_today" THEN <<"get", "meta", "spend", "today">>
    ELSE <<w>>

RECURSIVE Flatten(_)
Flatten(ss) == IF ss = <<>> THEN <<>> ELSE Head(ss) \o Flatten(Tail(ss))

Filter(s, Keep(_)) ==
    LET F[i \in 0..Len(s)] ==
            IF i = 0 THEN <<>> ELSE IF Keep(s[i]) THEN Append(F[i - 1], s[i]) ELSE F[i - 1]
    IN  F[Len(s)]

tokenize(text) ==
    LET m == normalizeMessage(text)
        parts == Flatten([i \in 1..Len(m) |-> AlnumParts(m[i])])
        keep(w) == w \notin OneChar /\ w \notin STOP_WORDS
    IN  Filter(parts, keep)

SeqToSet(s) == {s[i] : i \in 1..Len(s)}

\* A corpus line as loadPromptCorpus stores it.
PromptDoc(text) == [text |-> text, tokens |-> Dedup(tokenize(text))]

\* overlapScore(q, c) >= 0.15, in integers: overlap / max(3, min(|c|, |q|)) >= 15 / 100.
overlapNum(queryTokens, candidateTokens) ==
    IF queryTokens = <<>> \/ candidateTokens = <<>> THEN 0
    ELSE Cardinality(SeqToSet(queryTokens) \cap SeqToSet(candidateTokens))

\* overlapScore dividing by the number of tokens of both sides together.
overlapDen_Union(queryTokens, candidateTokens) == 3 + Len(queryTokens) + Len(candidateTokens)

overlapDen(queryTokens, candidateTokens) ==
    LET least == IF Len(candidateTokens) < Len(queryTokens)
                 THEN Len(candidateTokens) ELSE Len(queryTokens)
    IN  IF least < 3 THEN 3 ELSE least

\* 1 / Math.sqrt(n) in thousandths, for the document frequencies a small corpus has.
tokenWeight(n) ==
    CASE n = 1 -> 1000
      [] n = 2 -> 707
      [] n = 3 -> 577
      [] n = 4 -> 500
      [] n = 5 -> 447
      [] n = 6 -> 408
      [] n = 7 -> 378
      [] n = 8 -> 354
      [] n = 9 -> 333
      [] n = 10 -> 316
      [] n = 11 -> 302
      [] n = 12 -> 289
      [] n = 13 -> 277
      [] OTHER -> 267

\* Array.prototype.sort with a comparator (a, b) => b.score - a.score: stable, descending.
RECURSIVE InsertDesc(_, _)
InsertDesc(sorted, x) ==
    IF sorted = <<>> THEN <<x>>
    ELSE IF x.num * Head(sorted).den > Head(sorted).num * x.den
         THEN <<x>> \o sorted
         ELSE <<Head(sorted)>> \o InsertDesc(Tail(sorted), x)

SortDesc(s) ==
    LET F[i \in 0..Len(s)] == IF i = 0 THEN <<>> ELSE InsertDesc(F[i - 1], s[i])
    IN  F[Len(s)]

\* The loop over the matched prompts: add the inferred tool, stop at three tools.
RECURSIVE HarvestTools(_, _)
HarvestTools(tools, prompts) ==
    IF prompts = <<>> THEN tools
    ELSE LET t == inferToolFromText(Head(prompts))
             added == IF t # "none" THEN Dedup(Append(tools, t)) ELSE tools
         IN  IF Len(added) >= 3 THEN added ELSE HarvestTools(added, Tail(prompts))

\* candidateScores, in the insertion order of the Map: by query token, then by document.
CandidateDocs(qTokens, docs) ==
    Dedup(Flatten([i \in 1..Len(qTokens) |->
              Filter([d \in 1..Len(docs) |-> d],
                     LAMBDA d : qTokens[i] \in SeqToSet(docs[d].tokens))]))

\* The sum of 1 / sqrt(docIds.length) over the query tokens a document holds.
RECURSIVE CandidateWeight(_, _, _)
CandidateWeight(qTokens, d, docs) ==
    IF qTokens = <<>> THEN 0
    ELSE (IF Head(qTokens) \in SeqToSet(docs[d].tokens)
          THEN tokenWeight(Cardinality({x \in 1..Len(docs) :
                                           Head(qTokens) \in SeqToSet(docs[x].tokens)}))
          ELSE 0)
         + CandidateWeight(Tail(qTokens), d, docs)

\* candidateDocIds: the candidates by descending weight, the first 320.
CandidateDocIds(candidates, qTokens, docs) ==
    Take(SortDesc([i \in 1..Len(candidates) |->
             [num |-> CandidateWeight(qTokens, candidates[i], docs), den |-> 1,
              doc |-> candidates[i]]]), 320)

\* ranked without .slice(0, 12).
RankedDocs_Unsliced(ids, qTokens, docs) ==
    SortDesc(Filter([i \in 1..Len(ids) |->
                        [num |-> overlapNum(qTokens, docs[ids[i].doc].tokens),
                         den |-> overlapDen(qTokens, docs[ids[i].doc].tokens),
                         doc |-> ids[i].doc]],
                    LAMBDA x : x.num * 100 >= 15 * x.den))

\* scored, filtered at 0.15, sorted by descending overlap, the first 12.
RankedDocs(ids, qTokens, docs) ==
    Take(SortDesc(Filter([i \in 1..Len(ids) |->
                             [num |-> overlapNum(qTokens, docs[ids[i].doc].tokens),
                              den |-> overlapDen(qTokens, docs[ids[i].doc].tokens),
                              doc |-> ids[i].doc]],
                         LAMBDA x : x.num * 100 >= 15 * x.den)), 12)

MatchedPrompts(ranked, docs) == [i \in 1..Len(ranked) |-> docs[ranked[i].doc].text]

\* The tools the question itself names, before the matched prompts add theirs.
SeedTools(m) ==
    IF inferToolFromText(m) # "none" THEN <<inferToolFromText(m)>>
    ELSE IF HasSub(m, {"overview", "overall", "snapshot", "summary", "performance"})
         THEN (IF HasWord(m, {"meta"}) THEN <<"get_meta_spend_today">> ELSE <<>>)
              \o (IF HasWord(m, {"ga4"}) THEN <<"get_ga4_active_users_today">> ELSE <<>>)
         ELSE <<>>

RelatedTools(m, harvested) ==
    IF harvested = <<>> /\ isMarketingIntent(m) THEN defaultToolBundleForMessage(m) ELSE harvested

RelatedValue(m, matchedPrompts) ==
    [tools |-> Take(RelatedTools(m, HarvestTools(SeedTools(m), matchedPrompts)), 3),
     matchedPrompts |-> matchedPrompts]

\* The value computed when the cache has no fresh entry.
ComputeRelated(normalized, qTokens, docs) ==
    RelatedValue(normalized,
        MatchedPrompts(RankedDocs(CandidateDocIds(CandidateDocs(qTokens, docs), qTokens, docs),
                                  qTokens, docs), docs))

StoreRelated(normalized, value, cache, t) ==
    [cache |-> EvictOldest(MapSet(cache, normalized,
                                  [key |-> normalized, ts |-> t, value |-> value]),
                           MAX_PROMPT_RETRIEVAL_CACHE),
     value |-> value, looked |-> TRUE]

RelatedFor(normalized, qTokens, docs, cache, t) ==
    IF MapHas(cache, normalized) /\ t - MapGet(cache, normalized).ts < PROMPT_RETRIEVAL_TTL_MS
    THEN [cache |-> cache, value |-> MapGet(cache, normalized).value, looked |-> FALSE]
    ELSE IF qTokens = <<>>
    THEN [cache |-> cache, value |-> [tools |-> <<>>, matchedPrompts |-> <<>>], looked |-> FALSE]
    ELSE StoreRelated(normalized, ComputeRelated(normalized, qTokens, docs), cache, t)

\* retrieveRelatedPromptsAndTools: the value returned and the cache afterwards.
retrieveRelatedPromptsAndTools(message, docs, cache, t) ==
    RelatedFor(normalizeMessage(message), Dedup(tokenize(normalizeMessage(message))), docs, cache, t)

-----------------------------------------------------------------------------
(* The tool registry of toolIntegration.ts *)

MetaTools ==
    {"get_meta_spend_today", "get_meta_spend_month", "get_meta_spend_last_7d",
     "get_meta_leads_today", "get_meta_leads_last_30d", "get_meta_leads_last_7d",
     "get_meta_ads_running_today", "get_meta_best_campaign"}

InstagramTools ==
    {"get_instagram_account_overview", "get_instagram_reels_today",
     "get_instagram_reels_month", "get_instagram_best_reel"}

Ga4Tools ==
    {"get_ga4_active_users_today", "get_ga4_active_users_yesterday",
     "get_ga4_active_users_last_7_days", "get_ga4_active_users_last_15_days",
     "get_ga4_active_users_last_30_days", "get_ga4_sessions_today",
     "get_ga4_sessions_yesterday", "get_ga4_sessions_month", "get_ga4_sessions_last_7_days",
     "get_ga4_sessions_last_15_days", "get_ga4_sessions_last_30_days",
     "get_ga4_top_pages_today", "get_ga4_page_views_today", "get_ga4_page_views_yesterday",
     "get_ga4_page_views_last_7_days", "get_ga4_page_views_last_15_days",
     "get_ga4_page_views_last_30_days", "get_ga4_top_city_today", "get_ga4_top_city_yesterday",
     "get_ga4_top_city_last_7_days", "get_ga4_top_city_last_15_days",
     "get_ga4_top_city_last_30_days", "get_ga4_report_snapshot",
     "get_ga4_active_users_by_city", "get_ga4_sessions_by_source_medium",
     "get_ga4_top_pages_screens"}

\* The names registered in toolDefs.
toolDefs == MetaTools \cup InstagramTools \cup Ga4Tools

(* A JavaScript value passed as args: its typeof, its truthiness and, for   *)
(* an object, the two properties the handlers read ("none" is undefined).   *)
JsValue(type, truthy, period, account) ==
    [type |-> type, truthy |-> truthy, period |-> period, account_id |-> account]

EmptyArgs == JsValue("object", TRUE, "none", "none")

PeriodArgs(period) == JsValue("object", TRUE, period, "none")

\* The switches of toolIntegration.ts, read from the environment on every call.
Flags == {"ENABLE_META_API", "ALLOW_FAKE_DATA", "ALLOW_MCP_META_FALLBACK"}

isMetaEnabled(keys) == "ENABLE_META_API" \in keys

\* No tool family kept strictly live.
shouldUseStrictLiveForTool_Never(toolName, keys) == FALSE

shouldUseStrictLiveForTool(toolName, keys) ==
    toolName \in MetaTools \cup InstagramTools /\ "ALLOW_MCP_META_FALLBACK" \notin keys

allowAnyFallback(keys) == "ALLOW_FAKE_DATA" \in keys

\* What the services behind one tool invocation do: "ok" the live API answers,
\* "raise" the live API throws and so does the MCP server when it is asked, "mcp" the
\* live API throws and the MCP server answers with data, "notfound" the live API
\* throws and the MCP server answers that it does not know the tool, "mcpjson" the
\* live API throws and the MCP server answers with a JSON text of its own making.
Outcomes == {"ok", "raise", "mcp", "notfound", "mcpjson"}

\* The result objects: ok, tool, error, primary_error and mcp_error are the
\* properties of those names ("none" is undefined), window and account echo the
\* arguments, val is 1 when the object carries the metric fields the formatters
\* read, source says who made it.
LiveData(name, args) ==
    [account |-> args.account_id, ok |-> TRUE, tool |-> name, error |-> "none",
     window |-> args.period, val |-> 1, source |-> "live", primary_error |-> "none",
     mcp_error |-> "none"]

\* { ok: false, tool, error, primary_error, mcp_error }.
ErrWith(name, error, primaryErr, mcpMsg) ==
    [account |-> "none", ok |-> FALSE, tool |-> name, error |-> error, window |-> "none",
     val |-> 0, source |-> "none", primary_error |-> primaryErr, mcp_error |-> mcpMsg]

ErrObject(name, error) == ErrWith(name, error, "none", "none")

\* callMcpTool's value, spread under _fallback.
McpData(name, args) ==
    [account |-> "none", ok |-> TRUE, tool |-> name, error |-> "none", window |-> "none",
     val |-> 1, source |-> "mcp", primary_error |-> "none", mcp_error |-> "none"]

\* callMcpTool's value when the text of the MCP server parses as JSON: parsed.data is
\* returned as it is, here an object with the metric fields and no tool property.
McpJson(name, args) ==
    [account |-> "none", ok |-> TRUE, tool |-> "none", error |-> "none", window |-> "none",
     val |-> 1, source |-> "mcp", primary_error |-> "none", mcp_error |-> "none"]

\* callMcpTool's value when the text of the MCP server is no JSON: { ok, tool, text }.
McpText(name) ==
    [account |-> "none", ok |-> TRUE, tool |-> name, error |-> "none", window |-> "none",
     val |-> 0, source |-> "mcp", primary_error |-> "none", mcp_error |-> "none"]

\* No local mock for any name.
HasMock_None(toolName) == FALSE

\* makeLocalMock: a mock for every registered name, null for any other.
HasMock(toolName) == toolName \in toolDefs

makeLocalMock(toolName, args) ==
    [account |-> "none", ok |-> TRUE, tool |-> toolName, error |-> "none", window |-> args.period,
     val |-> 1, source |-> "mock", primary_error |-> "none", mcp_error |-> "none"]

\* callToolWithFallback without its try/catch: a failure of the primary call rejects.
callToolWithFallback_Rethrow(toolName, args, outcome, keys) ==
    IF (toolName \in MetaTools /\ ~isMetaEnabled(keys)) \/ outcome # "ok"
    THEN [raised |-> TRUE, result |-> ErrObject(toolName, "rejected")]
    ELSE [raised |-> FALSE, result |-> LiveData(toolName, args)]

\* err.message of the failed primary call and mcpErr.message of the failed MCP call.
PrimaryErr(toolName, keys) ==
    IF toolName \in MetaTools /\ ~isMetaEnabled(keys)
    THEN "ENABLE_META_API=false" ELSE "primary message"

McpMsg == "mcp message"

\* callToolWithFallback: whether the promise rejected and the value it resolved to.
callToolWithFallback(toolName, args, outcome, keys) ==
    LET resolved(value) == [raised |-> FALSE, result |-> value]
        primaryFails == (toolName \in MetaTools /\ ~isMetaEnabled(keys)) \/ outcome # "ok"
        bothFailed == ErrWith(toolName, "Both Primary API and MCP fallback failed",
                              PrimaryErr(toolName, keys), McpMsg)
    IN  IF ~primaryFails THEN resolved(LiveData(toolName, args))
        ELSE IF ~allowAnyFallback(keys) \/ shouldUseStrictLiveForTool(toolName, keys)
        THEN resolved(ErrWith(toolName, "Live API failed", PrimaryErr(toolName, keys), "none"))
        ELSE IF outcome \in {"ok", "mcp"} THEN resolved(McpData(toolName, args))
        ELSE IF outcome = "mcpjson" THEN resolved(McpJson(toolName, args))
        ELSE IF HasMock(toolName) THEN resolved(makeLocalMock(toolName, args))
        ELSE IF outcome = "notfound" THEN resolved(McpText(toolName))
        ELSE resolved(bothFailed)

\* { ...(args || {}) }: the own properties of an object, nothing of any other value.
SpreadArgs(args) ==
    IF args.truthy /\ args.type = "object"
    THEN [period |-> args.period, account_id |-> args.account_id]
    ELSE [period |-> "none", account_id |-> "none"]

\* runToolByName without the check of the type of args.
runToolByName_NoValidation(name, args, context, outcome, keys) ==
    IF name \notin toolDefs
    THEN [raised |-> FALSE, result |-> ErrObject(name, "Unknown tool"), invoked |-> <<>>]
    ELSE LET handled == callToolWithFallback(name, SpreadArgs(args), outcome, keys)
         IN  [raised |-> handled.raised, result |-> handled.result,
              invoked |-> <<[name |-> name, args |-> SpreadArgs(args)]>>]

\* runToolByName: whether the promise rejected, the value it resolved to, and the
\* handler invocations made (each with the arguments the handler received).
runToolByName(name, args, context, outcome, keys) ==
    IF name \notin toolDefs
    THEN [raised |-> FALSE, result |-> ErrObject(name, "Unknown tool"), invoked |-> <<>>]
    ELSE IF args.truthy /\ args.type # "object"
    THEN [raised |-> FALSE, result |-> ErrObject(name, "Invalid tool arguments"), invoked |-> <<>>]
    ELSE LET spread == SpreadArgs(args)
             finalArgs ==
                 IF context.metaAccountId # "none" /\ spread.account_id = "none"
                    /\ name \in MetaTools \cup InstagramTools \cup Ga4Tools
                 THEN [spread EXCEPT !.account_id = context.metaAccountId]
                 ELSE spread
             handled == callToolWithFallback(name, finalArgs, outcome, keys)
         IN  [raised |-> handled.raised, result |-> handled.result,
              invoked |-> <<[name |-> name, args |-> finalArgs]>>]

-----------------------------------------------------------------------------
(* Response formatters of chat.ts.  An answer is the sequence of its parts. *)

NumberTemplates ==
    {"get_meta_leads_today", "get_meta_leads_last_30d", "get_meta_ads_running_today",
     "get_meta_spend_today", "get_meta_spend_month", "get_ga4_active_users_today",
     "get_ga4_active_users_yesterday", "get_ga4_active_users_last_7_days",
     "get_ga4_sessions_today", "get_ga4_sessions_month", "get_instagram_reels_today",
     "get_instagram_reels_month", "get_instagram_account_overview"}

BestTemplates == {"get_meta_best_campaign", "get_instagram_best_reel"}

\* Number(result.field ?? 0), as text: the field of live data, 0 when the field is missing.
FieldText(result) == IF result.val = 1 THEN "value" ELSE "0"

windowLabel(result) ==
    IF result.window = "maximum" THEN "all time"
    ELSE IF result.window = "this_month" THEN "this month"
    ELSE "today"

formatToolAnswer(tool, result) ==
    IF tool \in NumberTemplates THEN <<"sentence", tool, FieldText(result)>>
    ELSE IF tool \in BestTemplates
    THEN (IF result.val # 1 THEN <<"no data is available for", tool, windowLabel(result)>>
          ELSE <<"best", tool, windowLabel(result), FieldText(result)>>)
    ELSE IF tool = "get_ga4_top_pages_today"
    THEN (IF result.val # 1 THEN <<"No top page data is available for today.">>
          ELSE <<"Top pages today:", FieldText(result)>>)
    ELSE IF result.ok = FALSE /\ result.error # "none"
    THEN <<"I couldn't complete that request:", result.error>>
         \o (IF result.primary_error # "none" THEN <<result.primary_error>> ELSE <<>>)
    ELSE <<"I completed the request successfully.">>

formatWorstCampaignAnswer(result) ==
    IF result.val # 1 THEN <<"I couldn't find campaign rows to identify poor performance today.">>
    ELSE <<"Your poorest performer today looks like", FieldText(result)>>

\* byTool.get(name): the result of the last entry with that name; Number(x?.field ?? NaN)
\* is finite exactly when such an entry exists and carries the field, that is, is live data.
HasData(toolResults, name) ==
    /\ \E i \in 1..Len(toolResults) : toolResults[i].name = name
    /\ LET last == CHOOSE i \in 1..Len(toolResults) :
                       /\ toolResults[i].name = name
                       /\ \A j \in (i + 1)..Len(toolResults) : toolResults[j].name # name
       IN  toolResults[last].result.val = 1

TableHeader == "| Metric | Current | Baseline | Delta | Insight |"

buildComparisonTableAnswer(message, toolResults) ==
    LET has(name) == HasData(toolResults, name)
        rows ==
            <<TableHeader, "|---|---:|---:|---:|---|">>
            \o (IF has("get_meta_spend_today") /\ has("get_meta_spend_month")
                THEN <<"| Meta spend (today vs month avg/day) |", "| Meta month projection |">>
                ELSE <<>>)
            \o (IF has("get_meta_leads_today") /\ has("get_meta_spend_today")
                THEN <<"| Meta CPL (today) |">> ELSE <<>>)
            \o (IF has("get_meta_best_campaign") THEN <<"| Best campaign today |">> ELSE <<>>)
            \o (IF has("get_ga4_active_users_today") /\ has("get_ga4_active_users_yesterday")
                THEN <<"| GA4 active users (today vs yesterday) |">> ELSE <<>>)
            \o (IF has("get_ga4_active_users_last_7_days")
                THEN <<"| GA4 active users (last 7 days) |">> ELSE <<>>)
            \o (IF has("get_ga4_sessions_today") /\ has("get_ga4_sessions_month")
                THEN <<"| GA4 sessions (today vs month avg/day) |">> ELSE <<>>)
    IN  <<"Comparison for:">> \o Trim(message) \o <<"">> \o rows \o <<"", "As of:">>

buildLeadQualityActionsAnswer(toolResults) ==
    <<"Top 3 actions to improve lead quality today:",
      IF HasData(toolResults, "get_meta_best_campaign")
      THEN "1. Shift 15-25% budget toward the best campaign (CPL)"
      ELSE "1. Shift 15-25% budget toward best-performing campaign",
      "2. Tighten lead form quality filters", "3. Align ad promise with landing page proof",
      "",
      IF HasData(toolResults, "get_meta_leads_today")
      THEN "Current snapshot: leads, spend, CPL" ELSE "Current snapshot: 0 leads, spend">>

buildReduceCplAnswer(toolResults) ==
    <<IF HasData(toolResults, "get_meta_leads_today")
      THEN "Current CPL today: value" ELSE "Current CPL today: N/A (no leads yet)",
      "best CPL", "worst CPL", "", "Best actions to reduce CPL from today's data:",
      "1. Reallocate 20-30% budget", "2. Pause ad sets with high spend",
      "3. Launch 2 fresh creatives">>

\* buildBudgetWasteAnswer without its early return for missing rows or spend.
buildBudgetWasteAnswer_Always(toolResults) ==
    <<"Budget waste check (today):", "- Likely waste is in:", "- Spend:", "- Leads:",
      "- CPL:", "", "Action now:", "1. Move 20-30% budget",
      "2. Pause low-intent placements", "3. Replace weak creatives">>

buildBudgetWasteAnswer(toolResults) ==
    IF ~HasData(toolResults, "get_meta_best_campaign") \/ ~HasData(toolResults, "get_meta_spend_today")
    THEN <<"I couldn't find enough campaign rows to locate budget waste today.",
           "Current total spend:">>
    ELSE <<"Budget waste check (today):", "- Likely waste is in:", "- Spend:", "- Leads:",
           "- CPL:", "", "Action now:", "1. Move 20-30% budget",
           "2. Pause low-intent placements", "3. Replace weak creatives">>

buildAdvisorAnswer(message, toolResults) ==
    LET m == normalizeMessage(message)
        snapshot ==
            IF toolResults = <<>> THEN <<>>
            ELSE <<"Here is your current snapshot:">>
                 \o Flatten([i \in 1..Len(toolResults) |->
                        <<"-">> \o formatToolAnswer(toolResults[i].name, toolResults[i].result)])
        topic ==
            IF HasSub(m, {"conversion", "landing", "cvr", "lead"}) THEN "conversion"
            ELSE IF HasSub(m, {"creative", "copy", "hook", "ad"}) THEN "creative"
            ELSE IF HasSub(m, {"budget", "spend", "roas", "cpa", "cpl"}) THEN "budget"
            ELSE IF HasSub(m, {"ga4", "sessions", "users", "traffic"}) THEN "analytics"
            ELSE "generic"
    IN  snapshot \o <<"", "Recommended next actions:", topic, "1.", "2.", "3.">>

fallbackUniversalAnswer(rawMessage) ==
    LET q == Trim(rawMessage)
        m == normalizeMessage(q)
        plan ==
            IF HasSub(m, {"seo", "organic", "keyword", "blog", "content"}) THEN "Quick SEO plan:"
            ELSE IF HasSub(m, {"sales", "closing", "funnel", "crm"}) \/ HasPhrase(m, "lead", "quality")
                 THEN "Quick sales/funnel plan:"
            ELSE IF HasSub(m, {"copy", "headline", "hook", "creative"})
                 THEN "Quick creative/copy framework:"
            ELSE IF HasSub(m, {"budget", "pricing", "profit", "roi", "roas", "finance"})
                 THEN "Quick budget control plan:"
            ELSE "Here is a practical way to proceed:"
    IN  <<"I understood your question:">> \o q \o <<"", plan, "1.", "2.", "3.", "4.">>

-----------------------------------------------------------------------------
(* LLM providers *)

Providers == {"openai", "gemini", "claude"}

\* getAvailableProviders: the configured providers, in the fixed order of the source.
getAvailableProviders(keys) ==
    Filter(<<"openai", "gemini", "claude">>, LAMBDA p : p \in keys)

\* The for loop of answerFromAnyProvider over the providers not tried yet.
RECURSIVE TryProviders(_, _, _)
TryProviders(ordered, succeed, tried) ==
    IF ordered = <<>> THEN [tried |-> tried, answered |-> FALSE, by |-> "none"]
    ELSE IF Head(ordered) \in succeed
         THEN [tried |-> Append(tried, Head(ordered)), answered |-> TRUE, by |-> Head(ordered)]
         ELSE TryProviders(Tail(ordered), succeed, Append(tried, Head(ordered)))

\* answerFromAnyProvider with the preference left out of the order.
answerFromAnyProvider_ConfigOrder(keys, preferred, succeed) ==
    TryProviders(getAvailableProviders(keys), succeed, <<>>)

\* answerFromAnyProvider: succeed is the set of providers whose call resolves with a
\* non-empty text on this request; every other call throws.
answerFromAnyProvider(keys, preferred, succeed) ==
    LET providers == getAvailableProviders(keys)
        ordered ==
            IF preferred # "none" /\ preferred \in SeqToSet(providers)
            THEN <<preferred>> \o Filter(providers, LAMBDA p : p # preferred)
            ELSE providers
    IN  TryProviders(ordered, succeed, <<>>)

-----------------------------------------------------------------------------
(* The chat route, router.post("/") *)

NoPayload == [tools |-> <<>>, ok |-> FALSE, answer |-> <<>>, mode |-> <<>>]

Payload(answer, tools, mode) == [tools |-> tools, ok |-> TRUE, answer |-> answer, mode |-> mode]

\* /^run\s+/i on the trimmed message.
StartsWithRun(userMessage) ==
    Len(userMessage) >= 2 /\ ToLower(userMessage[1]) = "run" /\ IsSpace(userMessage[2])

WordChars(t) == ~IsSpace(t) /\ t \notin Punctuation

\* The explicit-run pattern without its i flag.
RunMatches_CaseSensitive(userMessage) ==
    /\ Len(userMessage) = 3
    /\ userMessage[1] = "run"
    /\ IsSpace(userMessage[2])
    /\ WordChars(userMessage[3])

\* userMessage.match(/^run\s+([a-zA-Z0-9_]+)\s*$/i): the message is run, white space, one word.
RunMatches(userMessage) ==
    /\ Len(userMessage) = 3
    /\ ToLower(userMessage[1]) = "run"
    /\ IsSpace(userMessage[2])
    /\ WordChars(userMessage[3])

\* The outcome of the next tool invocation; a script that has run out means live data.
NextOutcome(outs) == IF outs = <<>> THEN "ok" ELSE Head(outs)

RestOutcomes(outs) == IF outs = <<>> THEN <<>> ELSE Tail(outs)

\* The loop breaking off at the first result that is not ok.
RECURSIVE RunLoop_StopAtErr(_, _, _, _, _)
RunLoop_StopAtErr(names, outs, context, keys, acc) ==
    IF names = <<>> THEN acc
    ELSE LET r == runToolByName(Head(names), EmptyArgs, context, NextOutcome(outs), keys)
             next == [acc EXCEPT !.calls = acc.calls \o r.invoked,
                                 !.results = Append(acc.results,
                                                    [name |-> Head(names), result |-> r.result])]
         IN  IF r.raised \/ ~r.result.ok THEN next
             ELSE RunLoop_StopAtErr(Tail(names), RestOutcomes(outs), context, keys, next)

\* A loop "for (const t of names) { const result = await runTool(t, {}); push }" that
\* has no try/catch: it stops at the first rejection, which leaves the handler.
RECURSIVE RunLoop(_, _, _, _, _)
RunLoop(names, outs, context, keys, acc) ==
    IF names = <<>> THEN acc
    ELSE LET r == runToolByName(Head(names), EmptyArgs, context, NextOutcome(outs), keys)
             next == [acc EXCEPT !.calls = acc.calls \o r.invoked]
         IN  IF r.raised THEN [next EXCEPT !.raised = TRUE]
             ELSE RunLoop(Tail(names), RestOutcomes(outs), context, keys,
                          [next EXCEPT !.results =
                               Append(acc.results, [name |-> Head(names), result |-> r.result])])

\* The loop of the comparison branch, which catches a rejection and pushes
\* { ok: false, error } in place of the result.
RECURSIVE RunLoopCatching(_, _, _, _, _)
RunLoopCatching(names, outs, context, keys, acc) ==
    IF names = <<>> THEN acc
    ELSE LET r == runToolByName(Head(names), EmptyArgs, context, NextOutcome(outs), keys)
             result == IF r.raised THEN ErrObject("none", "rejected") ELSE r.result
         IN  RunLoopCatching(Tail(names), RestOutcomes(outs), context, keys,
                 [acc EXCEPT !.calls = acc.calls \o r.invoked,
                             !.results = Append(acc.results,
                                                [name |-> Head(names), result |-> result])])

NoRuns == [raised |-> FALSE, calls |-> <<>>, results |-> <<>>]

\* The outcome script of one request: tools[i] is what the i-th tool invocation does,
\* llm the providers that answer when answerFromAnyProvider asks them, and gemini and
\* claude whether the later direct askGemini / askClaude call answers.
Script(tools, llm, gemini, claude) ==
    [tools |-> tools, llm |-> llm, gemini |-> gemini, claude |-> claude]

\* The places (first run, last run) of "last 7 days", "7 days", "last week", "this week".
WeekSpans(m) ==
    {<<i, i + 4>> : i \in {k \in 1..Len(m) :
        k + 4 <= Len(m) /\ "last" \in Suf(m[k]) /\ m[k + 1] = Sp /\ m[k + 2] = "7"
        /\ m[k + 3] = Sp /\ "day" \in Pre(m[k + 4])}}
    \cup {<<i, i + 2>> : i \in {k \in 1..Len(m) :
        k + 2 <= Len(m) /\ EndsWithNum(m[k], 7) /\ m[k + 1] = Sp /\ "day" \in Pre(m[k + 2])}}
    \cup {<<i, i + 2>> : i \in PhraseAt(m, "last", "week") \cup PhraseAt(m, "this", "week")}

\* /(ga4).*(active users?).*(week)/ or /(week).*(ga4).*(active users?)/, week being one
\* of the four phrases above.
Ga4WeeklyIntent(m) ==
    \E g \in {i \in 1..Len(m) : "ga4" \in Sub(m[i])}, a \in PhraseAt(m, "active", "user"),
       w \in WeekSpans(m) :
        \/ g < a /\ a + 2 < w[1]
        \/ w[2] < g /\ g < a

\* What the handler knows of one request: the body, the trimmed and the normalized
\* message, the caller's context, the outcome script and the shared state on entry.
Request(message, context, sc, st) ==
    [message |-> message, context |-> context, userMessage |-> Trim(message), sc |-> sc,
     st |-> st, normalizedMessage |-> normalizeMessage(Trim(message))]

\* The handler's progress: whether it has responded, what was sent, the tool
\* invocations and provider calls made on the way, and the shared state so far.
Start(q, cache) ==
    [cache |-> cache, payload |-> NoPayload, calls |-> <<>>, done |-> FALSE, status |-> "json",
     wanted |-> <<>>, asked |-> <<>>, direct |-> <<>>, lookups |-> 0, pcache |-> q.st.pcache,
     pref |-> q.st.pref]

\* return res.json(payload)
Send(payload, r) == [r EXCEPT !.done = TRUE, !.payload = payload]

\* setCachedResponse(responseCacheKey, payload); return res.json(payload)
Store(q, payload, r) ==
    [r EXCEPT !.done = TRUE, !.payload = payload,
              !.cache = setCachedResponse(r.cache, q.normalizedMessage, payload, q.st.now)]

\* a rejected await: catch (err) { return next(err) }
Throw(r) == [r EXCEPT !.done = TRUE, !.status = "error"]

\* The branches that run one tool and phrase its result, t being what the tool returned.
SingleReply(q, tool, t, mode, worst, cached, r) ==
    LET r1 == [r EXCEPT !.wanted = <<tool>>, !.calls = t.invoked]
        payload == Payload(IF worst THEN formatWorstCampaignAnswer(t.result)
                           ELSE formatToolAnswer(tool, t.result),
                           <<[name |-> tool, result |-> t.result]>>, mode)
    IN  IF t.raised THEN Throw(r1)
        ELSE IF cached THEN Store(q, payload, r1) ELSE Send(payload, r1)

Single(q, tool, args, mode, worst, cached, r) ==
    SingleReply(q, tool, runToolByName(tool, args, q.context, NextOutcome(q.sc.tools), q.st.env),
                mode, worst, cached, r)

\* The answer builder of each branch that runs a list of tools.
PlanAnswer(q, mode, results) ==
    CASE mode = <<"lead-quality-action-plan">> -> buildLeadQualityActionsAnswer(results)
      [] mode = <<"reduce-cpl-action-plan">> -> buildReduceCplAnswer(results)
      [] mode = <<"budget-waste-action-plan">> -> buildBudgetWasteAnswer(results)
      [] OTHER -> buildAdvisorAnswer(q.normalizedMessage, results)

PlanReply(q, names, run, mode, r) ==
    LET r1 == [r EXCEPT !.wanted = names, !.calls = run.calls]
    IN  IF run.raised THEN Throw(r1)
        ELSE Store(q, Payload(PlanAnswer(q, mode, run.results), run.results, mode), r1)

\* The branches that run a fixed list of tools without a try/catch.
Plan(q, names, mode, r) ==
    PlanReply(q, names, RunLoop(names, q.sc.tools, q.context, q.st.env, NoRuns), mode, r)

EstimateReply(q, t, count, unit, mode, r) ==
    LET r1 == [r EXCEPT !.wanted = <<"get_meta_spend_today">>, !.calls = t.invoked]
        note == IF unit = "hour(s)" /\ HasWord(q.normalizedMessage, {"cpl"})
                THEN <<"Also, the number you mentioned may be CPL">> ELSE <<>>
    IN  IF t.raised THEN Throw(r1)
        ELSE Store(q, Payload(<<"Estimated Meta spend for", ToString(count), unit, "is",
                                FieldText(t.result), "based on today's run-rate">> \o note,
                              <<[name |-> "get_meta_spend_today", result |-> t.result]>>, mode),
                   r1)

\* The run-rate estimates over a number of days or hours.
Estimate(q, count, unit, mode, r) ==
    EstimateReply(q, runToolByName("get_meta_spend_today", EmptyArgs, q.context,
                                   NextOutcome(q.sc.tools), q.st.env),
                  count, unit, mode, r)

\* The explicit run with setCachedResponse before its response.
ExplicitRun_Cached(q, r) ==
    IF RunMatches(q.userMessage)
    THEN Single(q, q.userMessage[3], EmptyArgs, <<"direct-tool">>, FALSE, TRUE, r)
    ELSE r

\* The branches of the handler in the order of the code. Each takes the request and
\* the progress so far, and either responds or leaves the progress to the next one.
ExplicitRun(q, r) ==
    IF RunMatches(q.userMessage)
    THEN Single(q, q.userMessage[3], EmptyArgs, <<"direct-tool">>, FALSE, FALSE, r)
    ELSE r

ComparisonReply(q, names, run, r) ==
    Store(q, Payload(buildComparisonTableAnswer(q.userMessage, run.results), run.results,
                     <<"comparison-table">>),
          [r EXCEPT !.wanted = names, !.calls = run.calls])

Comparison(q, r) ==
    IF isComparisonIntent(q.normalizedMessage)
    THEN ComparisonReply(q, comparisonToolsForMessage(q.normalizedMessage),
                         RunLoopCatching(comparisonToolsForMessage(q.normalizedMessage),
                                         q.sc.tools, q.context, q.st.env, NoRuns), r)
    ELSE r

BestCampaign(q, r) ==
    IF \/ HasSpaced(q.normalizedMessage, "best", {"campaign", "ad"})
       \/ HasThen(q.normalizedMessage, {"campaign", "ad"}, {"best"})
    THEN Single(q, "get_meta_best_campaign",
                PeriodArgs(detectBestCampaignPeriod(q.normalizedMessage)),
                <<"tool-mapping-best-campaign-", detectBestCampaignPeriod(q.normalizedMessage)>>,
                FALSE, TRUE, r)
    ELSE r

BestReel(q, r) ==
    IF \/ HasSpaced(q.normalizedMessage, "best", InstagramWords)
       \/ HasThen(q.normalizedMessage, InstagramWords, {"best"})
    THEN Single(q, "get_instagram_best_reel",
                PeriodArgs(detectBestCampaignPeriod(q.normalizedMessage)),
                <<"tool-mapping-best-instagram-reel-",
                  detectBestCampaignPeriod(q.normalizedMessage)>>,
                FALSE, TRUE, r)
    ELSE r

Ga4Weekly(q, r) ==
    IF Ga4WeeklyIntent(q.normalizedMessage)
    THEN Single(q, "get_ga4_active_users_last_7_days", EmptyArgs,
                <<"tool-mapping-ga4-weekly-priority">>, FALSE, TRUE, r)
    ELSE r

AdvisoryTools == <<"get_meta_leads_today", "get_meta_spend_today", "get_meta_best_campaign">>

LeadQuality(q, r) ==
    IF isLeadQualityActionsIntent(q.normalizedMessage)
    THEN Plan(q, AdvisoryTools, <<"lead-quality-action-plan">>, r)
    ELSE r

ReduceCpl(q, r) ==
    IF isReduceCplIntent(q.normalizedMessage)
    THEN Plan(q, AdvisoryTools, <<"reduce-cpl-action-plan">>, r)
    ELSE r

BudgetWaste(q, r) ==
    IF isBudgetWasteIntent(q.normalizedMessage)
    THEN Plan(q, <<"get_meta_spend_today", "get_meta_best_campaign">>,
              <<"budget-waste-action-plan">>, r)
    ELSE r

ProviderReply(q, p, r) ==
    IF p.answered
    THEN Store(q, Payload(<<"answer of", p.by>>, <<>>, <<p.by, "-priority">>),
               [r EXCEPT !.asked = p.tried, !.pref = p.by])
    ELSE [r EXCEPT !.asked = p.tried]

Provider(q, r) == ProviderReply(q, answerFromAnyProvider(q.st.env, q.st.pref, q.sc.llm), r)

MonthPriority(q, r) ==
    IF hasSpendIntent(q.normalizedMessage) /\ HasSub(q.normalizedMessage, {"month", "monthly"})
    THEN Single(q, "get_meta_spend_month", EmptyArgs, <<"tool-mapping-month-priority">>,
                FALSE, TRUE, r)
    ELSE r

Days(q, r) ==
    IF parseRequestedDays(q.normalizedMessage) # 0 /\ hasSpendIntent(q.normalizedMessage)
    THEN Estimate(q, parseRequestedDays(q.normalizedMessage), "days",
                  <<"tool-mapping-days-estimate">>, r)
    ELSE r

Hours(q, r) ==
    IF parseRequestedHours(q.normalizedMessage) # 0 /\ hasSpendIntent(q.normalizedMessage)
    THEN Estimate(q, parseRequestedHours(q.normalizedMessage), "hour(s)",
                  <<"tool-mapping-hours-estimate">>, r)
    ELSE r

Mapping(q, r) ==
    IF mapMessageToTool(q.normalizedMessage) # "none"
    THEN Single(q, mapMessageToTool(q.normalizedMessage), EmptyArgs, <<"tool-mapping">>,
                /\ mapMessageToTool(q.normalizedMessage) = "get_meta_best_campaign"
                /\ isPoorPerformanceIntent(q.normalizedMessage),
                TRUE, r)
    ELSE r

\* askGemini / askClaude in a try/catch of their own: a failure goes on to the next line.
Direct(q, provider, answers, mode, r) ==
    IF answers
    THEN Store(q, Payload(<<"answer of", provider>>, <<>>, mode),
               [r EXCEPT !.direct = Append(r.direct, provider)])
    ELSE [r EXCEPT !.direct = Append(r.direct, provider)]

GeneralGemini(q, r) ==
    IF ~isMarketingIntent(q.normalizedMessage) /\ "gemini" \in q.st.env
    THEN Direct(q, "gemini", q.sc.gemini, <<"gemini-fallback">>, r)
    ELSE r

GeneralClaude(q, r) ==
    IF ~isMarketingIntent(q.normalizedMessage) /\ "claude" \in q.st.env
    THEN Direct(q, "claude", q.sc.claude, <<"claude-fallback">>, r)
    ELSE r

Unavailable(q, r) ==
    IF ~isMarketingIntent(q.normalizedMessage) /\ ("gemini" \in q.st.env \/ "claude" \in q.st.env)
    THEN Store(q, Payload(<<"General AI fallback is temporarily unavailable">>, <<>>,
                          <<"general-ai-unavailable">>), r)
    ELSE r

RetrievalReply(q, related, r) ==
    IF related.value.tools # <<>>
    THEN Plan(q, related.value.tools, <<"prompt-retrieval-multi-tool">>,
              [r EXCEPT !.pcache = related.cache, !.lookups = r.lookups + 1])
    ELSE [r EXCEPT !.pcache = related.cache, !.lookups = r.lookups + 1]

Retrieval(q, r) ==
    RetrievalReply(q, retrieveRelatedPromptsAndTools(q.normalizedMessage, q.st.docs, r.pcache,
                                                     q.st.now), r)

LateGemini(q, r) ==
    IF "gemini" \in q.st.env
    THEN Direct(q, "gemini", q.sc.gemini, <<"gemini-fallback">>, r)
    ELSE r

DefaultBundle(q, r) ==
    IF isMarketingIntent(q.normalizedMessage)
    THEN Plan(q, defaultToolBundleForMessage(q.normalizedMessage),
              <<"marketing-default-bundle">>, r)
    ELSE r

NoMatch(q, r) ==
    Store(q, Payload(fallbackUniversalAnswer(q.userMessage), <<>>, <<"no-match">>), r)

Branches ==
    <<"ExplicitRun", "Comparison", "BestCampaign", "BestReel", "Ga4Weekly", "LeadQuality",
      "ReduceCpl", "BudgetWaste", "Provider", "MonthPriority", "Days", "Hours", "Mapping",
      "GeneralGemini", "GeneralClaude", "Unavailable", "Retrieval", "LateGemini",
      "DefaultBundle", "NoMatch">>

Branch(name, q, r) ==
    CASE name = "ExplicitRun" -> ExplicitRun(q, r)
      [] name = "Comparison" -> Comparison(q, r)
      [] name = "BestCampaign" -> BestCampaign(q, r)
      [] name = "BestReel" -> BestReel(q, r)
      [] name = "Ga4Weekly" -> Ga4Weekly(q, r)
      [] name = "LeadQuality" -> LeadQuality(q, r)
      [] name = "ReduceCpl" -> ReduceCpl(q, r)
      [] name = "BudgetWaste" -> BudgetWaste(q, r)
      [] name = "Provider" -> Provider(q, r)
      [] name = "MonthPriority" -> MonthPriority(q, r)
      [] name = "Days" -> Days(q, r)
      [] name = "Hours" -> Hours(q, r)
      [] name = "Mapping" -> Mapping(q, r)
      [] name = "GeneralGemini" -> GeneralGemini(q, r)
      [] name = "GeneralClaude" -> GeneralClaude(q, r)
      [] name = "Unavailable" -> Unavailable(q, r)
      [] name = "Retrieval" -> Retrieval(q, r)
      [] name = "LateGemini" -> LateGemini(q, r)
      [] name = "DefaultBundle" -> DefaultBundle(q, r)
      [] name = "NoMatch" -> NoMatch(q, r)

\* The code from the first branch to the last: the first branch that responds ends it.
RECURSIVE Route(_, _, _)
Route(names, q, r) ==
    IF r.done \/ names = <<>> THEN r ELSE Route(Tail(names), q, Branch(Head(names), q, r))

\* The response-cache lookup, which run requests and comparison requests skip.
Lookup(q) ==
    IF ~StartsWithRun(q.userMessage) /\ ~isComparisonIntent(q.normalizedMessage)
    THEN getCachedResponse(q.st.cache, q.normalizedMessage, q.st.now)
    ELSE [entry |-> "none", cache |-> q.st.cache, found |-> FALSE]

Respond(q, lookup) ==
    IF lookup.found
    THEN Send([lookup.entry.value EXCEPT !.mode = Append(lookup.entry.value.mode, "-cache-hit")],
              Start(q, lookup.cache))
    ELSE Route(Branches, q, Start(q, lookup.cache))

\* ChatBodySchema.parse(req.body) rejects an empty message before anything else runs.
Handle(q) ==
    IF q.message = <<>>
    THEN [Start(q, q.st.cache) EXCEPT !.done = TRUE, !.status = "400"]
    ELSE Respond(q, Lookup(q))

\* The handler, from the parsed body to the response: what was sent, the tool
\* invocations and provider calls made on the way, and the shared state afterwards.
chatHandler(message, context, sc, st) == Handle(Request(message, context, sc, st))

-----------------------------------------------------------------------------
(* Inputs *)

Msg_Run == <<"Run", Sp, "get_meta_spend_today">>
Msg_RunTrend == <<"run", Sp, "trend">>
Msg_Compare == <<"compare", Sp, "spend", Sp, "today", Sp, "vs", Sp, "this", Sp, "month">>
Msg_CompareAll ==
    <<"compare", Sp, "meta", Sp, "leads", Sp, "best", Sp, "ga4", Sp, "sessions", Sp, "yesterday">>
Msg_Weather == <<"What", Apos, "s", Sp, "the", Sp, "weather", Sp, "today">>
Msg_SpendDays == <<"spend", Sp, "today", Sp, "5", Sp, "days">>
Msg_SpendHours == <<"spend", Sp, "3", Sp, "hours">>
Msg_MetaSpend == <<"meta", Sp, "spend", Sp, "today">>
Msg_MonthSpend == <<"spend", Sp, "this", Sp, "month">>
Msg_LeadQuality == <<"improve", Sp, "lead", Sp, "quality">>
Msg_ReduceCpl == <<"reduce", Sp, "cpl">>
Msg_Waste == <<"where", Sp, "is", Sp, "budget", Sp, "wasted">>
Msg_BestCampaign == <<"best", Sp, "campaign">>
Msg_Ga4Sessions == <<"ga4", Sp, "sessions">>
Msg_Seo == <<"seo", Sp, "tips">>
Msg_Ga4Leads == <<"ga4", Sp, "leads">>
Msg_Blank == <<Sp>>
Msg_Empty == <<>>

Messages ==
    {Msg_Run, Msg_RunTrend, Msg_Compare, Msg_CompareAll, Msg_Weather, Msg_SpendDays, Msg_SpendHours,
     Msg_MetaSpend, Msg_MonthSpend, Msg_LeadQuality, Msg_ReduceCpl, Msg_Waste,
     Msg_BestCampaign, Msg_Ga4Sessions, Msg_Seo, Msg_Ga4Leads, Msg_Blank, Msg_Empty}

\* The prompt files the process may have been started with: none, or one line.
Corpora == {<<>>, <<PromptDoc(<<"meta", Sp, "spend", Sp, "today">>)>>}

NoContext == [metaAccountId |-> "none"]

Contexts == {NoContext, [metaAccountId |-> "act_1"]}

State ==
    [now |-> now, env |-> env, cache |-> responseCache, docs |-> corpus,
     pcache |-> promptRetrievalCache, pref |-> preferredProvider]

\* The outcomes that differ for a tool under the switches of the process: the MCP
\* server is asked only when fallback data is allowed for the tool.
OutcomesFor(toolName) ==
    IF allowAnyFallback(env) /\ ~shouldUseStrictLiveForTool(toolName, env)
    THEN Outcomes ELSE {"ok", "raise"}

\* The outcome vectors of a list of tool invocations.
RECURSIVE OutcomeVectors(_)
OutcomeVectors(calls) ==
    IF calls = <<>> THEN {<<>>}
    ELSE {<<o>> \o rest : o \in OutcomesFor(Head(calls).name),
                          rest \in OutcomeVectors(Tail(calls))}

\* The scripts of a request in which the providers behave as given.
ScriptsWith(message, llm, gemini, claude) ==
    {Script(tools, llm, gemini, claude) :
        tools \in OutcomeVectors(
            chatHandler(message, NoContext, Script(<<>>, llm, gemini, claude), State).calls)}

\* The provider behaviours that differ in something the request consults, base being
\* the request with no provider answering: at most one provider answers, and a direct
\* call is scripted only where the request makes it.
ProviderCombos(base) ==
    {c \in ({{}} \cup {{p} : p \in SeqToSet(base.asked)})
           \X (IF "gemini" \in SeqToSet(base.direct) THEN BOOLEAN ELSE {FALSE})
           \X (IF "claude" \in SeqToSet(base.direct) THEN BOOLEAN ELSE {FALSE}) :
        /\ c[1] # {} => ~c[2] /\ ~c[3]
        /\ c[2] => ~c[3]}

Scripts(message) ==
    UNION {ScriptsWith(message, c[1], c[2], c[3]) :
              c \in ProviderCombos(chatHandler(message, NoContext,
                                               Script(<<>>, {}, FALSE, FALSE), State))}


\* The argument values a caller of runToolByName can pass.
ArgValues ==
    {JsValue("undefined", FALSE, "none", "none"),
     JsValue("object", FALSE, "none", "none"),
     JsValue("number", FALSE, "none", "none"),
     JsValue("string", FALSE, "none", "none"),
     JsValue("boolean", FALSE, "none", "none"),
     JsValue("number", TRUE, "none", "none"),
     JsValue("string", TRUE, "none", "none"),
     JsValue("boolean", TRUE, "none", "none"),
     EmptyArgs,
     PeriodArgs("this_month"),
     JsValue("object", TRUE, "none", "act_2")}

ToolNames == {"get_meta_spend_today", "get_instagram_best_reel", "get_ga4_sessions_today",
              "trend", "get_meta"}

-----------------------------------------------------------------------------
(* The state machine *)

NoToolRun == [name |-> "none", args |-> EmptyArgs, outcome |-> "ok", raised |-> FALSE,
              result |-> ErrObject("none", "none"), context |-> NoContext, invoked |-> <<>>]

\* No function called yet.
NoApplied == [fn |-> "none", arg |-> <<>>, ret |-> <<>>, again |-> FALSE]

\* metrics.ts as loaded: an empty Map and two counters at zero.
NoMetrics == [byEndpoint |-> <<>>, totalRequests |-> 0, totalErrors |-> 0]

\* runMarketingAgent not called yet: pc is the await the call stands at, rounds the
\* responses received, pending the function calls of the last response not yet
\* executed, inputs the length of the input array.
NoAgent == [pc |-> "idle", rounds |-> 0, pending |-> 0, inputs |-> 0]

\* The process after start-up: the environment it was started with, the prompt
\* files it loaded, and nothing cached.
Booted ==
    /\ now = 0
    /\ preferredProvider = "none"
    /\ responseCache = <<>>
    /\ promptRetrievalCache = <<>>
    /\ hist = <<>>
    /\ toolRun = NoToolRun
    /\ applied = NoApplied
    /\ inflight = <<>>
    /\ agent = NoAgent
    /\ metrics = NoMetrics

Init ==
    /\ Booted
    /\ env \in SUBSET (Providers \cup Flags)
    /\ corpus \in Corpora

\* One POST /api/chat, handled from the first line of the handler to its response;
\* context holds the x-meta-account-id header of the request.
ChatAs(message, context, sc) ==
    \E h \in {chatHandler(message, context, sc, State)} :
        /\ responseCache' = h.cache
        /\ promptRetrievalCache' = h.pcache
        /\ preferredProvider' = h.pref
        /\ hist' = Append(hist, [at |-> now, payload |-> h.payload, context |-> context,
                                 calls |-> h.calls, status |-> h.status, wanted |-> h.wanted,
                                 asked |-> h.asked, direct |-> h.direct, lookups |-> h.lookups,
                                 msg |-> message, before |-> responseCache, after |-> h.cache])
        /\ UNCHANGED <<now, env, corpus, toolRun, applied, inflight, agent, metrics>>

\* A request without the header.
Chat(message, sc) == ChatAs(message, NoContext, sc)

\* Time passes between two requests.
Tick ==
    /\ now < MaxTime
    /\ now' = now + 1
    /\ UNCHANGED <<env, corpus, preferredProvider, responseCache, promptRetrievalCache, hist,
                   toolRun, applied, inflight, agent, metrics>>

\* One call of runToolByName, as POST /api/tools/run and the chat route make it.
RunTool(name, args, context, outcome) ==
    \E r \in {runToolByName(name, args, context, outcome, env)} :
        /\ toolRun' = [name |-> name, args |-> args, outcome |-> outcome, raised |-> r.raised,
                       result |-> r.result, context |-> context, invoked |-> r.invoked]
        /\ UNCHANGED <<now, env, corpus, preferredProvider, responseCache,
                       promptRetrievalCache, hist, applied, inflight, agent, metrics>>

RouteStep ==
    /\ Len(hist) < MaxRouteChats
    /\ \E message \in Messages : \E sc \in Scripts(message) : Chat(message, sc)

ToolStep ==
    \E name \in ToolNames, args \in ArgValues, context \in Contexts, outcome \in Outcomes :
        RunTool(name, args, context, outcome)

\* The process with live Meta data switched on, and fallback data either
\* forbidden or allowed (which leaves the Meta and Instagram tools strictly live).
RouteConfigs == {{"ENABLE_META_API"}, {"ENABLE_META_API", "ALLOW_FAKE_DATA"}}

InitRoute == Init /\ env \cap Flags \in RouteConfigs

NextRoute == RouteStep

\* The first requests after boot, every message and every outcome of its calls.
SpecRoute == InitRoute /\ [][NextRoute]_vars

InitTools == Init /\ corpus = <<>> /\ env \subseteq Flags

NextTools == ToolStep

\* Calls of runToolByName under every setting of the switches.
SpecTools == InitTools /\ [][NextTools]_vars

\* The messages of the cache runs: the blank one whose cache key is the empty
\* string, three more cached under keys of their own, a comparison, an explicit run.
CacheMessages == {Msg_Blank, Msg_Weather, Msg_Seo, Msg_MetaSpend, Msg_Compare, Msg_Run}

\* The cache runs script every tool invocation as answered by the live API.
CacheScript == Script(<<>>, {}, FALSE, FALSE)

CacheStep ==
    /\ Len(hist) < MaxChats
    /\ \E message \in CacheMessages : Chat(message, CacheScript)

InitCache == Init /\ env = {"ENABLE_META_API"} /\ corpus # <<>>

NextCache == CacheStep \/ Tick

\* A few requests spread over time, against the two caches.
SpecCache == InitCache /\ [][NextCache]_vars

\* The rest of the process while a function is called on its own.
Idle ==
    UNCHANGED <<now, env, corpus, preferredProvider, responseCache, promptRetrievalCache, hist,
                toolRun, inflight, agent, metrics>>

\* The process with nothing configured, for the calls that read no environment.
InitBare == Init /\ env = {} /\ corpus = <<>>

(* normalizeMessage on its own: called on a message, then on its own value. *)

MaxRuns == 5

NormWords == {"ga", "4", "insta", "gram", "add", "Run"}

\* The strings of at most MaxRuns runs of these words and of white space.
NormInputs ==
    {m \in UNION {[1..n -> NormWords \cup {Sp, Sp2}] : n \in 0..MaxRuns} :
        \A i \in 1..(Len(m) - 1) : IsSpace(m[i]) # IsSpace(m[i + 1])}

Normalize(message) ==
    /\ applied' = [fn |-> "normalizeMessage", arg |-> message,
                   ret |-> normalizeMessage(message), again |-> FALSE]
    /\ Idle

NormalizeAgain ==
    /\ applied.fn = "normalizeMessage"
    /\ ~applied.again
    /\ applied' = [fn |-> "normalizeMessage", arg |-> applied.ret,
                   ret |-> normalizeMessage(applied.ret), again |-> TRUE]
    /\ Idle

NormStep == applied = NoApplied /\ \E message \in NormInputs : Normalize(message)

NextNorm == NormStep \/ NormalizeAgain

SpecNorm == InitBare /\ [][NextNorm]_vars

(* getMetaBestCampaign of metaApi.ts on its own, called on the rows of one   *)
(* insights response.  A cpc of -1 stands for undefined in a row of the     *)
(* response and for null in a parsed row; cpc is counted in half units.     *)

MaxRows == 3

RawRows == [campaign_id : {"", "c"}, leads : {5, 10}, spend : {1, 2}, cpc : {-1, 0, 1, 2, 4}]

RowLists == UNION {[1..n -> RawRows] : n \in 0..MaxRows}

\* The .map of getMetaBestCampaign: a cpc that is not above 0 becomes null.
ParseRow(r) ==
    [campaign_id |-> r.campaign_id, leads |-> r.leads, spend |-> r.spend,
     cpc |-> IF r.cpc > 0 THEN r.cpc ELSE -1]

\* .map(...).filter(Boolean): the rows with a campaign id and name, parsed.
ParsedRows(rows) ==
    LET kept == SelectSeq(rows, LAMBDA r : r.campaign_id # "")
    IN  [i \in 1..Len(kept) |-> ParseRow(kept[i])]

\* A comparator that puts the rows without cpc first.
compareCampaigns_NullFirst(a, b) ==
    IF b.leads # a.leads THEN b.leads - a.leads
    ELSE IF a.cpc # b.cpc THEN a.cpc - b.cpc
    ELSE b.spend - a.spend

\* The comparator of parsed.sort; a.cpc ?? Infinity makes null the largest cpc.
compareCampaigns(a, b) ==
    IF b.leads # a.leads THEN b.leads - a.leads
    ELSE IF a.cpc # b.cpc
    THEN (IF a.cpc = -1 THEN 1 ELSE IF b.cpc = -1 THEN -1 ELSE a.cpc - b.cpc)
    ELSE b.spend - a.spend

\* Array.prototype.sort with that comparator: stable.
RECURSIVE InsertCampaign(_, _)
InsertCampaign(row, sorted) ==
    IF sorted = <<>> THEN <<row>>
    ELSE IF compareCampaigns(row, Head(sorted)) < 0 THEN <<row>> \o sorted
    ELSE <<Head(sorted)>> \o InsertCampaign(row, Tail(sorted))

RECURSIVE SortCampaigns(_)
SortCampaigns(rows) ==
    IF rows = <<>> THEN <<>>
    ELSE InsertCampaign(rows[Len(rows)], SortCampaigns(SubSeq(rows, 1, Len(rows) - 1)))

\* The best and top properties of the result; best is <<>> for null.
BestOf(parsed) ==
    [best |-> IF parsed = <<>> THEN <<>> ELSE <<parsed[1]>>, top |-> Take(parsed, 10)]

getMetaBestCampaign(rows) == BestOf(SortCampaigns(ParsedRows(rows)))

CallBestCampaign(rows) ==
    /\ applied' = [fn |-> "getMetaBestCampaign", arg |-> rows,
                   ret |-> getMetaBestCampaign(rows), again |-> FALSE]
    /\ Idle

BestStep == applied = NoApplied /\ \E rows \in RowLists : CallBestCampaign(rows)

NextBest == BestStep

SpecBest == InitBare /\ [][NextBest]_vars

(* resolveMetaAccountId of metaTenant.ts on its own.  An account id is a   *)
(* string of runs: white space, the prefix "act_", digits.  The value of   *)
(* META_AD_ACCOUNT_IDS is the sequence of its comma-separated items, <<>>  *)
(* when it is unset or empty, and <<>> is the unset META_AD_ACCOUNT_ID.    *)

MaxListed == 2

RawIds ==
    {<<>>, <<Sp>>, <<"1">>, <<"2">>, <<"3">>, <<"act_", "1">>, <<"act_", "2">>, <<Sp, "2">>,
     <<"act_">>}

ListedValues == UNION {[1..n -> RawIds] : n \in 0..MaxListed}

normalizeAccountId(raw) ==
    IF Trim(raw) = <<>> THEN <<>>
    ELSE IF Head(Trim(raw)) = "act_" THEN Trim(raw)
    ELSE <<"act_">> \o Trim(raw)

\* value.split(",").map(normalizeAccountId).filter(Boolean)
splitCsv(items) ==
    SelectSeq([i \in 1..Len(items) |-> normalizeAccountId(items[i])], LAMBDA x : x # <<>>)

getAllowedMetaAccountIds(primary, listed) ==
    Dedup(splitCsv(listed)
          \o (IF normalizeAccountId(primary) # <<>> THEN <<normalizeAccountId(primary)>>
              ELSE <<>>))

\* What a call does: the value it returns, or that it throws.
Returned(id) == [value |-> id, threw |-> FALSE]

Thrown == [value |-> <<>>, threw |-> TRUE]

\* resolveMetaAccountId returning the normalized id without looking it up.
resolveMetaAccountId_NoCheck(requested, primary, listed) ==
    IF getAllowedMetaAccountIds(primary, listed) = <<>> THEN Thrown
    ELSE IF requested = <<>> THEN Returned(getAllowedMetaAccountIds(primary, listed)[1])
    ELSE Returned(normalizeAccountId(requested))

\* resolveMetaAccountId(requested); <<>> is a requested id that is undefined or "".
resolveMetaAccountId(requested, primary, listed) ==
    IF getAllowedMetaAccountIds(primary, listed) = <<>> THEN Thrown
    ELSE IF requested = <<>> THEN Returned(getAllowedMetaAccountIds(primary, listed)[1])
    ELSE IF normalizeAccountId(requested) \notin SeqToSet(getAllowedMetaAccountIds(primary, listed))
    THEN Thrown
    ELSE Returned(normalizeAccountId(requested))

CallResolve(requested, primary, listed) ==
    /\ applied' = [fn |-> "resolveMetaAccountId",
                   arg |-> [primary |-> primary, listed |-> listed, requested |-> requested],
                   ret |-> resolveMetaAccountId(requested, primary, listed), again |-> FALSE]
    /\ Idle

ResolveStep ==
    /\ applied = NoApplied
    /\ \E requested \in RawIds, primary \in RawIds, listed \in ListedValues :
           CallResolve(requested, primary, listed)

NextResolve == ResolveStep

SpecResolve == InitBare /\ [][NextResolve]_vars

(* getRoleForApiKey and requireApiKey of auth.ts.  A key map is the        *)
(* function from the own property names of the object to their values;     *)
(* "" is the empty string, which is also what an unset variable reads as.  *)

ApiKeys == {"", "read-key", "legacy-key", "constructor"}

RoleStrings == {"viewer", "admin", "owner"}

\* The values of API_KEYS_JSON: a text that is no JSON, or an object of roles by key
\* (the empty object also stands for the unset variable).
Malformed == [parses |-> FALSE, entries |-> <<>>]

JsonValues ==
    {Malformed} \cup {[parses |-> TRUE, entries |-> f] :
                         f \in UNION {[ks -> RoleStrings] : ks \in SUBSET ApiKeys}}

isRole(v) == v \in {"viewer", "analyst", "admin"}

\* The property names every object inherits from Object.prototype.
InheritedNames == {"constructor"}

\* map[key] of an object made by {}: the own property, else the inherited one
\* (a function), else undefined.
JsGet(map, key) ==
    IF key \in DOMAIN map THEN map[key]
    ELSE IF key \in InheritedNames THEN "function"
    ELSE "undefined"

JsTruthy(v) == v \notin {"undefined", ""}

\* The loop of parseKeyMapFromEnv over the entries of the parsed JSON.
JsonKeyMap(json) ==
    IF json.parses
    THEN [k \in DOMAIN json.entries \ {""} |->
              IF isRole(json.entries[k]) THEN json.entries[k] ELSE "viewer"]
    ELSE <<>>

\* out[internal] = "admin" on the map out.
WithAdmin(out, internal) ==
    [k \in DOMAIN out \cup {internal} |-> IF k = internal THEN "admin" ELSE out[k]]

parseKeyMapFromEnv(json, internal) ==
    IF internal # "" /\ ~JsTruthy(JsGet(JsonKeyMap(json), internal))
    THEN WithAdmin(JsonKeyMap(json), internal)
    ELSE JsonKeyMap(json)

\* map[key] || null
OrNull(v) == IF JsTruthy(v) THEN v ELSE "null"

getRoleForApiKey(key, json, internal) == OrNull(JsGet(parseKeyMapFromEnv(json, internal), key))

CallGetRole(key, json, internal) ==
    /\ applied' = [fn |-> "getRoleForApiKey",
                   arg |-> [key |-> key, json |-> json, internal |-> internal],
                   ret |-> getRoleForApiKey(key, json, internal), again |-> FALSE]
    /\ Idle

RoleStep ==
    /\ applied = NoApplied
    /\ \E key \in ApiKeys, json \in JsonValues, internal \in ApiKeys :
           CallGetRole(key, json, internal)

NextRole == RoleStep

SpecRole == InitBare /\ [][NextRole]_vars

(* The middleware chain of server.ts: express.static("public"), GET        *)
(* /health, GET /ui, requireApiKey, the routers of /api/tools and          *)
(* /api/chat.  The source holds two functions requireApiKey, the one       *)
(* server.ts declares and mounts and the one auth.ts exports; guard says   *)
(* which of them is mounted.                                               *)

Paths == {"/health", "/ui", "/index.html", "/api/chat", "/api/tools/run"}

Methods == {"GET", "POST"}

Guards == {"server", "auth"}

\* requireApiKey of server.ts: whether the request is passed on.
requireApiKeyServer(key, internal) ==
    IF internal = "" THEN TRUE
    ELSE key # "" /\ key = internal

\* requireApiKey of auth.ts: whether the request is passed on.
requireApiKey(key, json, internal) ==
    IF DOMAIN parseKeyMapFromEnv(json, internal) = {} THEN TRUE
    ELSE IF key = "" THEN FALSE
    ELSE JsTruthy(JsGet(parseKeyMapFromEnv(json, internal), key))

PassesGuard(guard, key, json, internal) ==
    IF guard = "server" THEN requireApiKeyServer(key, internal)
    ELSE requireApiKey(key, json, internal)

\* What answers a request: the status sent and the handler reached.
Answered(status, reached) == [status |-> status, reached |-> reached]

\* The chain, in the order of the app.use and app.get calls.
serve(path, method, key, json, internal, guard) ==
    IF method = "GET" /\ path = "/index.html" THEN Answered("200", "static")
    ELSE IF method = "GET" /\ path = "/health" THEN Answered("200", "health")
    ELSE IF method = "GET" /\ path = "/ui" THEN Answered("200", "ui")
    ELSE IF ~PassesGuard(guard, key, json, internal) THEN Answered("401", "none")
    ELSE IF method = "POST" /\ path = "/api/tools/run" THEN Answered("200", "tools")
    ELSE IF method = "POST" /\ path = "/api/chat" THEN Answered("200", "chat")
    ELSE Answered("404", "none")

CallServe(path, method, key, json, internal, guard) ==
    /\ applied' = [fn |-> "serve",
                   arg |-> [key |-> key, json |-> json, internal |-> internal, guard |-> guard,
                            path |-> path, method |-> method],
                   ret |-> serve(path, method, key, json, internal, guard), again |-> FALSE]
    /\ Idle

ServeStep ==
    /\ applied = NoApplied
    /\ \E path \in Paths, method \in Methods, key \in ApiKeys, json \in JsonValues,
          internal \in ApiKeys, guard \in Guards :
           CallServe(path, method, key, json, internal, guard)

NextServe == ServeStep

SpecServe == InitBare /\ [][NextServe]_vars

(* answerFromAnyProvider of chat.ts on its own, call after call: it reads   *)
(* and writes the module variable preferredProvider.                       *)

\* One call from its first line to its return, succeed being the providers that answer it.
CallAnswer(succeed) ==
    \E r \in {answerFromAnyProvider(env, preferredProvider, succeed)} :
        /\ preferredProvider' = IF r.answered THEN r.by ELSE preferredProvider
        /\ applied' = [fn |-> "answerFromAnyProvider",
                       arg |-> [env |-> env, llm |-> succeed, pref |-> preferredProvider],
                       ret |-> r, again |-> FALSE]
        /\ UNCHANGED <<now, env, corpus, responseCache, promptRetrievalCache, hist, toolRun,
                       inflight, agent, metrics>>

AnswerStep == \E succeed \in SUBSET Providers : CallAnswer(succeed)

InitAnswer == Init /\ corpus = <<>> /\ env \subseteq Providers

NextAnswer == AnswerStep

SpecAnswer == InitAnswer /\ [][NextAnswer]_vars

(* answerFromAnyProvider called by requests in flight together.  A call     *)
(* runs without interruption from one await to the next: from its first    *)
(* line to the first tryProvider call, and from the settling of a          *)
(* tryProvider call to the return or to the next tryProvider call.         *)

MaxCalls == 2

\* The order in which a call that starts now tries the providers.
OrderedProviders(keys, preferred) ==
    IF preferred # "none" /\ preferred \in SeqToSet(getAvailableProviders(keys))
    THEN <<preferred>> \o Filter(getAvailableProviders(keys), LAMBDA p : p # preferred)
    ELSE getAvailableProviders(keys)

\* A call up to its first await: ordered holds the provider being awaited and the
\* ones after it; with no provider configured the call has returned null.
BeginCall(keys, preferred, succeed) ==
    [ordered |-> OrderedProviders(keys, preferred), tried |-> <<>>, answered |-> FALSE,
     by |-> "none", llm |-> succeed, done |-> OrderedProviders(keys, preferred) = <<>>]

\* The call after the awaited tryProvider settles: resolved, it returns the answer;
\* rejected, the catch logs and the loop goes on or ends.
SettleCall(c) ==
    IF Head(c.ordered) \in c.llm
    THEN [ordered |-> <<>>, tried |-> Append(c.tried, Head(c.ordered)), answered |-> TRUE,
          by |-> Head(c.ordered), llm |-> c.llm, done |-> TRUE]
    ELSE [ordered |-> Tail(c.ordered), tried |-> Append(c.tried, Head(c.ordered)),
          answered |-> FALSE, by |-> "none", llm |-> c.llm, done |-> Tail(c.ordered) = <<>>]

\* preferredProvider written whatever the call did.
PreferredAfter_Always(c, preferred) == Head(c.ordered)

\* preferredProvider = p runs only after the await resolved.
PreferredAfter(c, preferred) ==
    IF Head(c.ordered) \in c.llm THEN Head(c.ordered) ELSE preferred

Begin(succeed) ==
    /\ Len(inflight) < MaxCalls
    /\ inflight' = Append(inflight, BeginCall(env, preferredProvider, succeed))
    /\ UNCHANGED <<now, env, corpus, preferredProvider, responseCache, promptRetrievalCache,
                   hist, toolRun, applied, agent, metrics>>

Settle(i) ==
    /\ ~inflight[i].done
    /\ inflight' = [inflight EXCEPT ![i] = SettleCall(inflight[i])]
    /\ preferredProvider' = PreferredAfter(inflight[i], preferredProvider)
    /\ UNCHANGED <<now, env, corpus, responseCache, promptRetrievalCache, hist, toolRun,
                   applied, agent, metrics>>

BeginStep == \E succeed \in SUBSET Providers : Begin(succeed)

SettleStep == \E i \in 1..Len(inflight) : Settle(i)

InitRace == Init /\ corpus = <<>> /\ env \subseteq Providers

NextRace == BeginStep \/ SettleStep

SpecRace == InitRace /\ [][NextRace]_vars

(* retrieveRelatedPromptsAndTools on its own, over corpora of up to        *)
(* fourteen lines that all hold the word meta, call after call as time     *)
(* passes: it reads and writes promptRetrievalCache.                       *)

PromptLines ==
    <<<<"meta", Sp, "budget">>, <<"meta", Sp, "spend", Sp, "month">>,
      <<"meta", Sp, "quality">>, <<"meta", Sp, "leads", Sp, "today">>,
      <<"meta", Sp, "cpl">>, <<"meta", Sp, "best", Sp, "campaign">>,
      <<"meta", Sp, "seo">>, <<"meta", Sp, "hours">>, <<"meta", Sp, "days">>,
      <<"meta", Sp, "lead">>, <<"meta", Sp, "reduce">>, <<"meta", Sp, "improve">>,
      <<"meta", Sp, "ga4", Sp, "sessions">>, <<"meta", Sp, "spend", Sp, "today">>>>

CorpusSizes == {0, 1, 4, 12, 13, 14}

\* The first lines of the list, and the last ones.
RetrievalCorpora ==
    {[i \in 1..n |-> PromptDoc(PromptLines[i])] : n \in CorpusSizes}
    \cup {[i \in 1..n |-> PromptDoc(PromptLines[Len(PromptLines) - n + i])] : n \in CorpusSizes}

RetrievalMessages ==
    {<<"meta">>, <<"meta", Sp2, "spend">>, Msg_MetaSpend, Msg_Ga4Sessions, Msg_BestCampaign,
     Msg_Seo, Msg_Weather, Msg_Blank}

CallRetrieve(message) ==
    \E r \in {retrieveRelatedPromptsAndTools(message, corpus, promptRetrievalCache, now)} :
        /\ promptRetrievalCache' = r.cache
        /\ applied' = [fn |-> "retrieveRelatedPromptsAndTools", arg |-> [message |-> message],
                       ret |-> r.value, again |-> ~r.looked]
        /\ UNCHANGED <<now, env, corpus, preferredProvider, responseCache, hist, toolRun,
                       inflight, agent, metrics>>

RetrieveStep == \E message \in RetrievalMessages : CallRetrieve(message)

InitRetrieve == Booted /\ env = {} /\ corpus \in RetrievalCorpora

NextRetrieve == RetrieveStep \/ Tick

SpecRetrieve == InitRetrieve /\ [][NextRetrieve]_vars

(* Requests of several tenants: the same few messages sent with and        *)
(* without an x-meta-account-id header, as time passes.                    *)

Tenants == {NoContext, [metaAccountId |-> "act_1"], [metaAccountId |-> "act_2"]}

TenantMessages == {Msg_MetaSpend, Msg_Ga4Sessions, Msg_Run}

TenantStep ==
    /\ Len(hist) < MaxChats
    /\ \E message \in TenantMessages, context \in Tenants :
           ChatAs(message, context, CacheScript)

InitTenant == Init /\ env = {"ENABLE_META_API"} /\ corpus = <<>>

NextTenant == TenantStep \/ Tick

SpecTenant == InitTenant /\ [][NextTenant]_vars

(* runMarketingAgent of openaiAgent.ts, await by await.  The code counts    *)
(* nothing; rounds and inputs are kept to tell the states apart and stay   *)
(* at their bound once they reach it.                                      *)

MaxRounds == 4

MaxToolCalls == 3

MaxInputs == 12

UpTo(n, max) == IF n > max THEN max ELSE n

\* The rest of the process while the agent runs.
RestIdle ==
    UNCHANGED <<now, env, corpus, preferredProvider, responseCache, promptRetrievalCache, hist,
                toolRun, applied, inflight, metrics>>

\* The call up to its first await: input holds the user message.
AgentStart ==
    /\ agent.pc = "idle"
    /\ agent' = [pc |-> "create", rounds |-> 0, pending |-> 0, inputs |-> 1]
    /\ RestIdle

\* client.responses.create resolves with a response that holds calls function calls:
\* with none the loop breaks and the text is returned, otherwise the output is
\* pushed onto input and the first call goes to the MCP server.
AgentResponse(calls) ==
    /\ agent.pc = "create"
    /\ agent' = IF calls = 0
                THEN [agent EXCEPT !.pc = "done", !.rounds = UpTo(@ + 1, MaxRounds)]
                ELSE [pc |-> "tool", rounds |-> UpTo(agent.rounds + 1, MaxRounds),
                      pending |-> calls, inputs |-> UpTo(agent.inputs + calls, MaxInputs)]
    /\ RestIdle

\* client.responses.create rejects: the catch throws an Error to the route.
AgentRequestFails ==
    /\ agent.pc = "create"
    /\ agent' = [agent EXCEPT !.pc = "failed"]
    /\ RestIdle

\* callMcpTool resolves: its output is pushed onto input; after the last call of the
\* response the loop asks the model again.
AgentToolReturns ==
    /\ agent.pc = "tool"
    /\ agent' = [pc |-> IF agent.pending = 1 THEN "create" ELSE "tool", rounds |-> agent.rounds,
                 pending |-> agent.pending - 1, inputs |-> UpTo(agent.inputs + 1, MaxInputs)]
    /\ RestIdle

\* callMcpTool rejects: nothing catches it inside runMarketingAgent.
AgentToolFails ==
    /\ agent.pc = "tool"
    /\ agent' = [agent EXCEPT !.pc = "failed"]
    /\ RestIdle

AgentResponseStep == \E calls \in 0..MaxToolCalls : AgentResponse(calls)

NextAgent ==
    AgentStart \/ AgentResponseStep \/ AgentRequestFails \/ AgentToolReturns \/ AgentToolFails

\* Every await settles: a call that can take a step takes one.
SpecAgent == InitBare /\ [][NextAgent]_vars /\ WF_vars(NextAgent)

(* metrics.ts on its own: recordRequestMetric and resetMetrics called in    *)
(* any order.  byEndpoint is the Map as the sequence of its entries in     *)
(* insertion order; the snapshot leaves out the two timestamps and the     *)
(* rounded ratios avg_ms and error_rate_pct.                               *)

MaxRecorded == 4

RequestMethods == {"GET", "get", "POST"}

RoutePaths == {"/health", "/api/chat"}

StatusCodes == {200, 399, 400, 500}

Durations == {1, 5}

ToUpperCase(method) == IF method = "get" THEN "GET" ELSE method

\* key(method, routePath)
EndpointKey(method, routePath) == <<ToUpperCase(method), " ", routePath>>

\* byEndpoint.get(k) || { count: 0, errorCount: 0, totalMs: 0, maxMs: 0 }
EndpointAgg(byEndpoint, k) ==
    IF \E i \in 1..Len(byEndpoint) : byEndpoint[i].endpoint = k
    THEN byEndpoint[CHOOSE i \in 1..Len(byEndpoint) : byEndpoint[i].endpoint = k]
    ELSE [count |-> 0, endpoint |-> k, errorCount |-> 0, totalMs |-> 0, maxMs |-> 0]

\* byEndpoint.set(k, curr): a present key keeps its place.
SetEndpoint(byEndpoint, curr) ==
    IF \E i \in 1..Len(byEndpoint) : byEndpoint[i].endpoint = curr.endpoint
    THEN [i \in 1..Len(byEndpoint) |->
             IF byEndpoint[i].endpoint = curr.endpoint THEN curr ELSE byEndpoint[i]]
    ELSE Append(byEndpoint, curr)

\* recordRequestMetric counting an error in the totals only.
recordRequestMetric_TotalsOnly(m, method, routePath, statusCode, durationMs) ==
    [byEndpoint |->
         SetEndpoint(m.byEndpoint,
             [count |-> EndpointAgg(m.byEndpoint, EndpointKey(method, routePath)).count + 1,
              endpoint |-> EndpointKey(method, routePath),
              errorCount |-> EndpointAgg(m.byEndpoint, EndpointKey(method, routePath)).errorCount,
              totalMs |-> EndpointAgg(m.byEndpoint, EndpointKey(method, routePath)).totalMs + durationMs,
              maxMs |-> durationMs]),
     totalRequests |-> m.totalRequests + 1,
     totalErrors |-> m.totalErrors + (IF statusCode >= 400 THEN 1 ELSE 0)]

\* recordRequestMetric: the module state after the call.
recordRequestMetric(m, method, routePath, statusCode, durationMs) ==
    LET curr == EndpointAgg(m.byEndpoint, EndpointKey(method, routePath))
    IN  [byEndpoint |->
             SetEndpoint(m.byEndpoint,
                 [count |-> curr.count + 1, endpoint |-> curr.endpoint,
                  errorCount |-> curr.errorCount + (IF statusCode >= 400 THEN 1 ELSE 0),
                  totalMs |-> curr.totalMs + durationMs,
                  maxMs |-> IF durationMs > curr.maxMs THEN durationMs ELSE curr.maxMs]),
         totalRequests |-> m.totalRequests + 1,
         totalErrors |-> m.totalErrors + (IF statusCode >= 400 THEN 1 ELSE 0)]

\* resetMetrics: the module state after the call.
resetMetrics(m) == [byEndpoint |-> <<>>, totalRequests |-> 0, totalErrors |-> 0]

\* endpoints.sort((a, b) => b.count - a.count): stable, descending by count.
RECURSIVE InsertByCount(_, _)
InsertByCount(sorted, x) ==
    IF sorted = <<>> THEN <<x>>
    ELSE IF x.count > Head(sorted).count THEN <<x>> \o sorted
    ELSE <<Head(sorted)>> \o InsertByCount(Tail(sorted), x)

SortByCount(s) ==
    LET F[i \in 0..Len(s)] == IF i = 0 THEN <<>> ELSE InsertByCount(F[i - 1], s[i])
    IN  F[Len(s)]

\* getMetricsSnapshot: totals and the endpoint table.
getMetricsSnapshot(m) ==
    [totals |-> [requests |-> m.totalRequests, errors |-> m.totalErrors],
     endpoints |-> SortByCount([i \in 1..Len(m.byEndpoint) |->
                       [count |-> m.byEndpoint[i].count, endpoint |-> m.byEndpoint[i].endpoint,
                        error_count |-> m.byEndpoint[i].errorCount,
                        max_ms |-> m.byEndpoint[i].maxMs]])]

\* The rest of the process while metrics.ts is called.
MetricsOnly ==
    UNCHANGED <<now, env, corpus, preferredProvider, responseCache, promptRetrievalCache, hist,
                toolRun, inflight, agent>>

RecordMetric(method, routePath, statusCode, durationMs) ==
    /\ metrics' = recordRequestMetric(metrics, method, routePath, statusCode, durationMs)
    /\ applied' = [fn |-> "recordRequestMetric", arg |-> <<method, routePath>>,
                   ret |-> <<>>, again |-> FALSE]
    /\ MetricsOnly

ResetMetrics ==
    /\ metrics' = resetMetrics(metrics)
    /\ applied' = [fn |-> "resetMetrics", arg |-> <<>>, ret |-> <<>>, again |-> FALSE]
    /\ MetricsOnly

RecordStep ==
    /\ metrics.totalRequests < MaxRecorded
    /\ \E method \in RequestMethods, routePath \in RoutePaths, statusCode \in StatusCodes,
          durationMs \in Durations :
           RecordMetric(method, routePath, statusCode, durationMs)

NextMetrics == RecordStep \/ ResetMetrics

SpecMetrics == InitBare /\ [][NextMetrics]_vars

-----------------------------------------------------------------------------
(* Properties of the chat route, over the requests observed in hist *)

Requests == 1..Len(hist)

Names(tools) == [k \in 1..Len(tools) |-> tools[k].name]

\* The response was served from the response cache.
CacheHit(o) == o.payload.mode # <<>> /\ o.payload.mode[Len(o.payload.mode)] = "-cache-hit"

\* The key under which a message is cached.
KeyOf(message) == normalizeMessage(Trim(message))

\* The modes of an answer written by an LLM provider.
ProviderModes ==
    {<<p, "-priority">> : p \in Providers} \cup {<<"gemini-fallback">>, <<"claude-fallback">>}

\* The request made no provider call, no tool call and no corpus lookup.
NothingExecuted(o) ==
    o.calls = <<>> /\ o.asked = <<>> /\ o.direct = <<>> /\ o.lookups = 0

\* C1: a message "run <tool_name>" is answered with mode "direct-tool" by one call of
\* that tool with empty arguments (no call when the name is not registered, the
\* result then being the Unknown tool error); no LLM provider is asked, no corpus
\* lookup is made and the response cache is left as it was, whichever providers are
\* configured.
C1_ExplicitRunBypass ==
    \A i \in Requests :
        LET o == hist[i]
        IN  o.msg \in {Msg_Run, Msg_RunTrend} =>
                /\ o.status = "json"
                /\ o.payload.ok
                /\ o.payload.mode = <<"direct-tool">>
                /\ Names(o.payload.tools) = <<o.msg[3]>>
                /\ o.calls = IF o.msg[3] \in toolDefs
                             THEN <<[name |-> o.msg[3],
                                     args |-> [period |-> "none", account_id |-> "none"]]>>
                             ELSE <<>>
                /\ o.asked = <<>>
                /\ o.direct = <<>>
                /\ o.lookups = 0
                /\ o.after = o.before

\* An explicit run answered with live data while a provider is configured and a
\* prompt corpus is loaded.
C1_Witness ==
    \E i \in Requests :
        /\ hist[i].msg = Msg_Run
        /\ "openai" \in env
        /\ corpus # <<>>
        /\ hist[i].payload.mode = <<"direct-tool">>
        /\ hist[i].payload.tools[1].result.source = "live"

\* C2: every request whose body passes the schema ends with one payload that has
\* ok:true, a non-empty answer and a mode, whatever the providers and the tools do.
C2_AlwaysOnePayload ==
    \A i \in Requests :
        LET o == hist[i]
        IN  o.msg # <<>> =>
                /\ o.status = "json"
                /\ o.payload.ok
                /\ o.payload.answer # <<>>
                /\ o.payload.mode # <<>>

\* Three providers were asked, none answered, and the mapped tool failed as well.
C2_Witness ==
    \E i \in Requests :
        /\ hist[i].msg = Msg_MetaSpend
        /\ Len(hist[i].asked) = 3
        /\ hist[i].status = "json"
        /\ Len(hist[i].payload.tools) = 1
        /\ ~hist[i].payload.tools[1].result.ok

\* C3: on a request that asks for a list of tools (comparison, the advisory plans,
\* prompt retrieval, default bundle) a failed tool does not keep the others from
\* running: the response is ok:true, every requested tool that is registered was
\* invoked, and tools holds one entry per requested tool in the requested order,
\* the entry of a failed tool being an object with ok:false and an error.
C3_PerToolIsolation ==
    \A i \in Requests :
        LET o == hist[i]
        IN  o.wanted # <<>> =>
                /\ o.status = "json"
                /\ o.payload.ok
                /\ Names(o.payload.tools) = o.wanted
                /\ Names(o.calls) = Filter(o.wanted, LAMBDA t : t \in toolDefs)
                /\ \A k \in 1..Len(o.payload.tools) :
                       LET r == o.payload.tools[k].result
                       IN  r.ok \/ r.error # "none"

\* An advisory plan whose first tool failed and whose last tool answered, and a
\* retrieval bundle of three tools whose second tool failed.
C3_Witness ==
    \/ \E i \in Requests :
        /\ hist[i].msg = Msg_LeadQuality
        /\ Len(hist[i].payload.tools) = 3
        /\ ~hist[i].payload.tools[1].result.ok
        /\ hist[i].payload.tools[3].result.ok
    \/ \E i \in Requests :
        /\ hist[i].msg = Msg_Ga4Leads
        /\ hist[i].payload.mode = <<"prompt-retrieval-multi-tool">>
        /\ Len(hist[i].payload.tools) = 3
        /\ ~hist[i].payload.tools[2].result.ok
        /\ hist[i].payload.tools[3].result.ok

\* C4: a message with comparison intent that is no explicit run is answered with mode
\* "comparison-table" and the table header row, by at most 6 tools and without any
\* LLM provider call, whichever providers are configured and whichever tools fail.
C4_ComparisonTable ==
    \A i \in Requests :
        LET o == hist[i]
        IN  o.msg \in {Msg_Compare, Msg_CompareAll} =>
                /\ o.status = "json"
                /\ o.payload.ok
                /\ o.payload.mode = <<"comparison-table">>
                /\ TableHeader \in SeqToSet(o.payload.answer)
                /\ o.asked = <<>>
                /\ o.direct = <<>>
                /\ Len(o.wanted) <= 6
                /\ Len(o.calls) <= 6
                /\ Names(o.payload.tools) = o.wanted

\* A comparison over six tools, some failing and some not, with a provider configured.
C4_Witness ==
    \E i \in Requests :
        /\ hist[i].msg = Msg_CompareAll
        /\ env \cap Providers # {}
        /\ Len(hist[i].payload.tools) = 6
        /\ \E k \in 1..6 : ~hist[i].payload.tools[k].result.ok
        /\ \E k \in 1..6 : hist[i].payload.tools[k].result.ok

C6_CachesBounded ==
    /\ Len(responseCache) <= MAX_RESPONSE_CACHE
    /\ Len(promptRetrievalCache) <= MAX_PROMPT_RETRIEVAL_CACHE

\* The messages of the model that no stage before the fallback classifies: the
\* weather question counts only while no corpus line matches it.
Unclassified(o) ==
    o.msg \in {Msg_Blank, Msg_Seo} \/ (o.msg = Msg_Weather /\ corpus = <<>>)

\* The messages of the model that a deterministic stage after the providers answers.
StageMode(message) ==
    CASE message = Msg_MonthSpend -> <<"tool-mapping-month-priority">>
      [] message = Msg_SpendDays -> <<"tool-mapping-days-estimate">>
      [] message = Msg_SpendHours -> <<"tool-mapping-hours-estimate">>
      [] message = Msg_MetaSpend -> <<"tool-mapping">>
      [] message \in {Msg_Ga4Sessions, Msg_Ga4Leads} -> <<"prompt-retrieval-multi-tool">>
      [] OTHER -> <<>>

WeatherToolLines ==
    {k \in 1..Len(corpus) :
        /\ SeqToSet(corpus[k].tokens) \cap {"weather", "today"} # {}
        /\ inferToolFromText(corpus[k].text) # "none"}

C9_Original ==
    \A i \in Requests :
        LET o == hist[i]
        IN  (/\ o.msg \in {Msg_MetaSpend, Msg_SpendDays}
             /\ ~CacheHit(o)
             /\ o.payload.mode \notin ProviderModes)
                => o.payload.mode = <<"tool-mapping">>

\* C9: the stages are tried in the order explicit run, comparison, parametrized
\* detectors and advisory plans, LLM providers, month spend, days estimate, hours
\* estimate, keyword mapping, and the first that matches answers: a stage before the
\* providers asks no provider; after them the answer is a provider's or, every
\* configured provider having been asked, that of the first later stage that matches,
\* the estimates coming before the keyword mapping.
C9_StageOrder ==
    \A i \in Requests :
        LET o == hist[i]
            mode == o.payload.mode
        IN  (o.status = "json" /\ ~CacheHit(o)) =>
                /\ o.msg \in {Msg_Run, Msg_RunTrend} => mode = <<"direct-tool">> /\ o.asked = <<>>
                /\ o.msg = Msg_CompareAll => mode = <<"comparison-table">> /\ o.asked = <<>>
                /\ o.msg = Msg_BestCampaign =>
                       mode = <<"tool-mapping-best-campaign-", "today">> /\ o.asked = <<>>
                /\ o.msg = Msg_LeadQuality =>
                       mode = <<"lead-quality-action-plan">> /\ o.asked = <<>>
                /\ o.msg = Msg_ReduceCpl => mode = <<"reduce-cpl-action-plan">> /\ o.asked = <<>>
                /\ o.msg = Msg_Waste => mode = <<"budget-waste-action-plan">> /\ o.asked = <<>>
                /\ StageMode(o.msg) # <<>> =>
                       \/ /\ o.asked # <<>>
                          /\ mode = <<o.asked[Len(o.asked)], "-priority">>
                          /\ o.wanted = <<>>
                       \/ /\ SeqToSet(o.asked) = env \cap Providers
                          /\ mode = StageMode(o.msg)

\* A spend message with a count of days: a provider was asked and failed, and the
\* days estimate answered, not the keyword mapping.
C9_Witness ==
    \E i \in Requests :
        /\ hist[i].msg = Msg_SpendDays
        /\ hist[i].asked # <<>>
        /\ hist[i].payload.mode = <<"tool-mapping-days-estimate">>
        /\ mapMessageToTool(KeyOf(Msg_SpendDays)) = "get_meta_spend_today"

-----------------------------------------------------------------------------
(* Properties of runToolByName, over the call observed in toolRun *)

\* C10 as stated: an unregistered name gives "Unknown tool", an args value that is
\* not an object gives "Invalid tool arguments", anything else one handler invocation.
C10_Original ==
    toolRun.name # "none" =>
        IF toolRun.name \notin toolDefs
        THEN ~toolRun.result.ok /\ toolRun.result.error = "Unknown tool"
        ELSE IF toolRun.args.type # "object" \/ ~toolRun.args.truthy
        THEN /\ ~toolRun.result.ok
             /\ toolRun.result.error = "Invalid tool arguments"
             /\ toolRun.invoked = <<>>
        ELSE Len(toolRun.invoked) = 1

\* C10: runToolByName answers "Unknown tool" for a name that is not registered and
\* "Invalid tool arguments" for a truthy args value that is not an object, invoking
\* no handler; for any other args value (an object, or a falsy value, which stands
\* for {}) it invokes the registered handler once and returns what the handler returns.
C10_RunToolByName ==
    toolRun.name # "none" =>
        IF toolRun.name \notin toolDefs
        THEN /\ ~toolRun.result.ok
             /\ toolRun.result.error = "Unknown tool"
             /\ toolRun.result.tool = toolRun.name
             /\ toolRun.invoked = <<>>
        ELSE IF toolRun.args.truthy /\ toolRun.args.type # "object"
        THEN /\ ~toolRun.result.ok
             /\ toolRun.result.error = "Invalid tool arguments"
             /\ toolRun.invoked = <<>>
        ELSE /\ Len(toolRun.invoked) = 1
             /\ toolRun.invoked[1].name = toolRun.name
             /\ ~toolRun.args.truthy => toolRun.invoked[1].args.period = "none"
             /\ ~toolRun.raised
             /\ toolRun.result =
                    callToolWithFallback(toolRun.name, toolRun.invoked[1].args,
                                         toolRun.outcome, env).result

\* A registered tool called with a falsy value that is no object: the handler ran.
C10_Witness ==
    /\ toolRun.name \in toolDefs
    /\ ~toolRun.args.truthy
    /\ toolRun.args.type = "number"
    /\ Len(toolRun.invoked) = 1
    /\ toolRun.result.ok


\* C11: every result in the tools array of a response (live result, Err of the
\* handler, MCP fallback result, local mock, placeholder of a tool that raised)
\* carries a tool property equal to the name of the tool that was requested.
C11_ToolFieldOnResults ==
    \A i \in Requests :
        \A k \in 1..Len(hist[i].payload.tools) :
            hist[i].payload.tools[k].result.tool = hist[i].payload.tools[k].name

\* The handler of the tool ran and its primary call failed.
PrimaryFailed(run) ==
    /\ run.invoked # <<>>
    /\ (run.name \in MetaTools /\ ~isMetaEnabled(env)) \/ run.outcome # "ok"

\* The MCP bridge is asked for the tool after a failure of its primary call.
McpAsked(run) ==
    allowAnyFallback(env) /\ ~shouldUseStrictLiveForTool(run.name, env)

\* C12 as stated: when the primary call of a tool fails and the MCP bridge call for
\* it fails as well, the handler returns an Err (ok:false) that holds both error
\* strings, in primary_error and in mcp_error.
C12_Original ==
    (PrimaryFailed(toolRun) /\ McpAsked(toolRun) /\ toolRun.outcome = "raise")
    => /\ ~toolRun.result.ok
       /\ toolRun.result.primary_error # "none"
       /\ toolRun.result.mcp_error # "none"

\* C12: when the primary call of a registered tool fails and the MCP bridge call for
\* it fails as well, the handler returns the local mock of the tool (ok:true, tool
\* the requested name, neither primary_error nor mcp_error); when fallback is not
\* allowed for the tool the bridge is not asked and the result is the Err
\* "Live API failed" with primary_error only.  No result holds mcp_error.
C12_BothFail ==
    /\ toolRun.result.mcp_error = "none"
    /\ PrimaryFailed(toolRun) =>
          IF McpAsked(toolRun)
          THEN toolRun.outcome = "raise" =>
                   /\ toolRun.result = makeLocalMock(toolRun.name, toolRun.invoked[1].args)
                   /\ toolRun.result.ok
                   /\ toolRun.result.tool = toolRun.name
                   /\ toolRun.result.primary_error = "none"
          ELSE /\ ~toolRun.result.ok
               /\ toolRun.result.error = "Live API failed"
               /\ toolRun.result.tool = toolRun.name
               /\ toolRun.result.primary_error # "none"

\* The primary call and the MCP bridge call of a GA4 tool both failed.
C12_Witness ==
    /\ PrimaryFailed(toolRun)
    /\ McpAsked(toolRun)
    /\ toolRun.outcome = "raise"
    /\ toolRun.name \in Ga4Tools
    /\ toolRun.result.source = "mock"

\* An error result: ok is false and error is a string.
IsErrResult(r) == ~r.ok /\ r.error # "none"

\* C13: the single-tool phrasing of an error result (ok:false with an error string)
\* is the apology citing the error, for every tool name, those with a dedicated
\* template included; an error result is never phrased as a metric value.
C13_ErrorApology ==
    \A i \in Requests :
        \A k \in 1..Len(hist[i].payload.tools) :
            LET t == hist[i].payload.tools[k]
            IN  IsErrResult(t.result) =>
                    /\ \A tool \in toolDefs \cup {t.name} :
                           formatToolAnswer(tool, t.result)[1]
                               = "I couldn't complete that request:"
                    /\ hist[i].payload.mode = <<"direct-tool">> =>
                           /\ hist[i].payload.answer[1] = "I couldn't complete that request:"
                           /\ hist[i].payload.answer[2] = t.result.error

\* C14: normalizeMessage is idempotent: called on its own value it returns that
\* value, whatever white space separates the parts of a rewritten token.
C14_Idempotent ==
    (applied.fn = "normalizeMessage" /\ applied.again) => applied.ret = applied.arg

\* Row a comes no later than row b in the order leads descending, then cpc
\* ascending with a missing cpc after every present one, then spend descending.
NoLater(a, b) ==
    \/ a.leads > b.leads
    \/ /\ a.leads = b.leads
       /\ \/ a.cpc # -1 /\ (b.cpc = -1 \/ a.cpc < b.cpc)
          \/ a.cpc = b.cpc /\ a.spend >= b.spend

\* The campaigns of the example, cpc 2, 1 and 0.5 in half units.
ExampleRows ==
    <<[campaign_id |-> "c", leads |-> 10, spend |-> 1, cpc |-> 4],
      [campaign_id |-> "c", leads |-> 10, spend |-> 1, cpc |-> 2],
      [campaign_id |-> "c", leads |-> 5, spend |-> 1, cpc |-> 1]>>

\* C15: the campaign reported as best is the first of the campaign list sorted by
\* leads descending, then cpc ascending with a missing cpc after every present
\* one, then spend descending (null when the list is empty); of the campaigns
\* (leads 10, cpc 2), (leads 10, cpc 1), (leads 5, cpc 0.5) it is the cpc 1 entry.
C15_BestCampaign ==
    applied.fn = "getMetaBestCampaign" =>
        LET parsed == ParsedRows(applied.arg)
            top == applied.ret.top
        IN  /\ Len(top) = Len(parsed)
            /\ \A r \in RawRows :
                   Cardinality({i \in 1..Len(top) : top[i] = ParseRow(r)})
                       = Cardinality({i \in 1..Len(parsed) : parsed[i] = ParseRow(r)})
            /\ \A k \in 1..Len(top) : \A l \in k..Len(top) : NoLater(top[k], top[l])
            /\ applied.ret.best = Take(top, 1)
            /\ applied.arg = ExampleRows => applied.ret.best[1].cpc = 2

\* The example, and a list in which the campaign with the most leads has no cpc.
C15_Witness ==
    /\ applied.fn = "getMetaBestCampaign"
    /\ \/ applied.arg = ExampleRows /\ applied.ret.best[1].cpc = 2
       \/ /\ Len(applied.ret.top) = 3
          /\ applied.ret.top[1].cpc # -1
          /\ applied.ret.top[2].cpc = -1
          /\ applied.ret.top[1].leads = applied.ret.top[2].leads

\* The number a line of an advisory answer starts with, 0 for a line without one.
ActionNumber(line) ==
    CASE line \in {"1. Shift 15-25% budget toward the best campaign (CPL)",
                   "1. Shift 15-25% budget toward best-performing campaign",
                   "1. Reallocate 20-30% budget", "1. Move 20-30% budget"} -> 1
      [] line \in {"2. Tighten lead form quality filters", "2. Pause ad sets with high spend",
                   "2. Pause low-intent placements"} -> 2
      [] line \in {"3. Align ad promise with landing page proof", "3. Launch 2 fresh creatives",
                   "3. Replace weak creatives"} -> 3
      [] OTHER -> 0

\* The numbers of the numbered lines of an answer, in the order of the lines.
ActionNumbers(answer) ==
    LET numbered == SelectSeq(answer, LAMBDA line : ActionNumber(line) # 0)
    IN  [k \in 1..Len(numbered) |-> ActionNumber(numbered[k])]

AdvisoryModes ==
    {<<"lead-quality-action-plan">>, <<"reduce-cpl-action-plan">>, <<"budget-waste-action-plan">>}

\* C16 as stated: every advisory answer (lead quality, reduce CPL, budget waste)
\* holds exactly the numbered actions 1, 2, 3 in that order, whatever the tools
\* returned.
C16_Original ==
    \A i \in Requests :
        hist[i].payload.mode \in AdvisoryModes
            => ActionNumbers(hist[i].payload.answer) = <<1, 2, 3>>

\* C16: the lead-quality and the reduce-CPL answer hold exactly the numbered
\* actions 1, 2, 3 in that order whatever the tools returned; the budget-waste
\* answer holds them when the campaign tool returned rows and the spend tool a
\* spend, and otherwise is the notice that no campaign rows were found, with the
\* current total spend and no action.
C16_AdvisoryActions ==
    \A i \in Requests :
        LET p == hist[i].payload
        IN  /\ p.mode \in {<<"lead-quality-action-plan">>, <<"reduce-cpl-action-plan">>}
                   => ActionNumbers(p.answer) = <<1, 2, 3>>
            /\ p.mode = <<"budget-waste-action-plan">> =>
                   IF \A k \in 1..Len(p.tools) : p.tools[k].result.val = 1
                   THEN ActionNumbers(p.answer) = <<1, 2, 3>>
                   ELSE p.answer = <<"I couldn't find enough campaign rows to locate budget waste today.",
                                     "Current total spend:">>

\* A budget-waste request whose spend tool failed and whose campaign tool answered.
C16_Witness ==
    \E i \in Requests :
        /\ hist[i].payload.mode = <<"budget-waste-action-plan">>
        /\ ~hist[i].payload.tools[1].result.ok
        /\ hist[i].payload.tools[2].result.ok
        /\ ActionNumbers(hist[i].payload.answer) = <<>>

\* C17: a request whose message is empty, or is empty after trimming, is rejected
\* with status 400 before any classifier stage, tool, provider or cache is
\* touched.
C17_EmptyRejected ==
    \A i \in Requests :
        Trim(hist[i].msg) = <<>> =>
            /\ hist[i].status = "400"
            /\ NothingExecuted(hist[i])
            /\ hist[i].after = hist[i].before

\* The configured allowed set: the ids of META_AD_ACCOUNT_IDS and META_AD_ACCOUNT_ID,
\* each normalized to the act_ prefix.
AllowedSet(arg) ==
    {normalizeAccountId(x) : x \in SeqToSet(arg.listed) \cup {arg.primary}} \ {<<>>}

\* C18: resolveMetaAccountId returns only ids of the configured allowed set: the
\* act_-normalized requested id when it is in the set, the first id of the allowed
\* list when no id is requested, and it throws for a requested id outside the set
\* and when no account is configured.
C18_ResolveAllowed ==
    applied.fn = "resolveMetaAccountId" =>
        LET arg == applied.arg
            ret == applied.ret
        IN  /\ ~ret.threw => ret.value \in AllowedSet(arg)
            /\ IF AllowedSet(arg) = {} THEN ret.threw
               ELSE IF arg.requested = <<>>
               THEN ret = Returned(getAllowedMetaAccountIds(arg.primary, arg.listed)[1])
               ELSE IF normalizeAccountId(arg.requested) \in AllowedSet(arg)
               THEN ret = Returned(normalizeAccountId(arg.requested))
               ELSE ret.threw

\* The requested id 2 resolved to act_2 of the list, with another id as primary.
C18_Witness ==
    /\ applied.fn = "resolveMetaAccountId"
    /\ applied.arg.requested = <<"2">>
    /\ applied.arg.primary = <<"act_", "1">>
    /\ applied.ret = Returned(<<"act_", "2">>)

\* C19: getRoleForApiKey(key) is the role API_KEYS_JSON maps the key to; for a key
\* API_KEYS_JSON does not map it is "admin" when the key is the INTERNAL_API_KEY
\* and null otherwise; INTERNAL_API_KEY never overrides a role of API_KEYS_JSON.
C19_RoleForKey ==
    applied.fn = "getRoleForApiKey" =>
        LET arg == applied.arg
            given == IF arg.json.parses THEN arg.json.entries ELSE <<>>
        IN  IF arg.key \in DOMAIN given THEN applied.ret = given[arg.key]
            ELSE IF arg.internal # "" /\ arg.key = arg.internal THEN applied.ret = "admin"
            ELSE applied.ret = "null"

\* The key is configured: it is the INTERNAL_API_KEY or a key of API_KEYS_JSON.
KnownKey(arg) ==
    /\ arg.key # ""
    /\ \/ arg.key = arg.internal
       \/ arg.json.parses /\ arg.key \in DOMAIN arg.json.entries

\* C20: a request to a route under /api that carries no x-api-key header or an
\* unknown key is answered 401 and reaches no handler, in every configuration of
\* the key variables; without a key only /health and /ui are reachable.
C20_ApiNeedsKey ==
    applied.fn = "serve" =>
        /\ (applied.arg.path \in {"/api/chat", "/api/tools/run"} /\ ~KnownKey(applied.arg))
               => applied.ret = Answered("401", "none")
        /\ (applied.arg.key = "" /\ applied.ret.reached # "none")
               => applied.arg.path \in {"/health", "/ui"}

\* The place of a provider in the order getAvailableProviders lists them.
ConfigRank(p) == CASE p = "openai" -> 1 [] p = "gemini" -> 2 [] p = "claude" -> 3

\* C21: one call of answerFromAnyProvider tries every configured provider at most
\* once, the preferred one first when it is set and configured and then the others
\* in configuration order; the first provider that succeeds ends the loop, is the
\* one whose answer is returned and becomes preferredProvider; a failing provider
\* leaves preferredProvider unchanged; the call returns null exactly when no
\* provider is configured or all of them failed.
C21_ProviderOrder ==
    applied.fn = "answerFromAnyProvider" =>
        LET arg == applied.arg
            ret == applied.ret
            configured == arg.env \cap Providers
            tried == ret.tried
        IN  /\ \A i \in 1..Len(tried) : tried[i] \in configured
            /\ \A i, j \in 1..Len(tried) : i # j => tried[i] # tried[j]
            /\ arg.pref \in configured /\ tried # <<>> => tried[1] = arg.pref
            /\ \A i, j \in 1..Len(tried) :
                   i < j /\ tried[i] # arg.pref => ConfigRank(tried[i]) < ConfigRank(tried[j])
            /\ \A i \in 1..Len(tried) :
                   (tried[i] \in arg.llm) <=> (ret.answered /\ i = Len(tried))
            /\ ret.answered => ret.by = tried[Len(tried)] /\ preferredProvider = ret.by
            /\ ~ret.answered => preferredProvider = arg.pref /\ SeqToSet(tried) = configured
            /\ ~ret.answered <=> (configured = {} \/ configured \cap arg.llm = {})

\* With claude preferred and all three configured, claude and openai fail and gemini
\* answers.
C21_Witness ==
    /\ applied.fn = "answerFromAnyProvider"
    /\ applied.arg.pref = "claude"
    /\ applied.ret.tried = <<"claude", "openai", "gemini">>
    /\ applied.ret.answered
    /\ preferredProvider = "gemini"

\* C22: with calls of answerFromAnyProvider interleaved at their awaits, a call that
\* has returned has an answer exactly when some configured provider succeeds for it,
\* it tried no provider twice, and preferredProvider is null or a provider that
\* answered one of the calls.
C22_RaceBenign ==
    /\ \A i \in 1..Len(inflight) :
           /\ inflight[i].done =>
                  (inflight[i].answered <=> (env \cap Providers \cap inflight[i].llm # {}))
           /\ inflight[i].answered => inflight[i].by \in inflight[i].llm
           /\ \A j, k \in 1..Len(inflight[i].tried) :
                  j # k => inflight[i].tried[j] # inflight[i].tried[k]
    /\ \/ preferredProvider = "none"
       \/ \E i \in 1..Len(inflight) :
              inflight[i].answered /\ inflight[i].by = preferredProvider

\* The second call began while preferredProvider was still null and goes on in that
\* order after the first call made claude the preferred provider.
C22_Witness ==
    /\ Len(inflight) >= 2
    /\ inflight[1].answered /\ inflight[1].by = "claude"
    /\ preferredProvider = "claude"
    /\ inflight[2].tried = <<"openai">>
    /\ inflight[2].ordered = <<"gemini", "claude">>

\* C23 as stated: the handler of a registered tool never rejects, and when its
\* primary call failed and no MCP bridge call answered (the bridge was not asked or
\* threw as well) the value is an object with ok:false and an error string.
C23_Original ==
    toolRun.invoked # <<>> =>
        /\ ~toolRun.raised
        /\ (PrimaryFailed(toolRun) /\ (~McpAsked(toolRun) \/ toolRun.outcome = "raise"))
               => IsErrResult(toolRun.result)

\* C23: the handler of a registered tool never rejects, whatever the primary call
\* and the MCP bridge call do; when the primary call failed and the bridge is not
\* asked the value is an object with ok:false and an error string, and when the
\* bridge is asked and throws as well the value is the local mock of the tool, an
\* object with ok:true and no error string.
C23_NoEscape ==
    toolRun.invoked # <<>> =>
        /\ ~toolRun.raised
        /\ PrimaryFailed(toolRun) /\ ~McpAsked(toolRun) => IsErrResult(toolRun.result)
        /\ PrimaryFailed(toolRun) /\ McpAsked(toolRun) /\ toolRun.outcome = "raise"
               => /\ toolRun.result.ok
                  /\ toolRun.result.error = "none"
                  /\ toolRun.result.source = "mock"
        /\ ~PrimaryFailed(toolRun) => toolRun.result.source = "live"

\* A Meta tool called with ENABLE_META_API off and fallback data allowed for it, the
\* MCP bridge throwing: the handler resolved to the mock.
C23_Witness ==
    /\ toolRun.name = "get_meta_spend_today"
    /\ toolRun.invoked # <<>>
    /\ "ENABLE_META_API" \notin env
    /\ McpAsked(toolRun)
    /\ toolRun.outcome = "raise"
    /\ ~toolRun.raised
    /\ toolRun.result.ok

\* C24: retrieveRelatedPromptsAndTools returns at most 3 tool names, no name twice,
\* and at most 12 matched prompts, for every message and corpus, computed or taken
\* from the cache; when inferToolFromText finds a tool in the query itself, that
\* tool is the first of the returned tools.
C24_RetrievalBounds ==
    applied.fn = "retrieveRelatedPromptsAndTools" =>
        LET tools == applied.ret.tools
            fromQuestion == inferToolFromText(normalizeMessage(applied.arg.message))
        IN  /\ Len(tools) <= 3
            /\ \A i, j \in 1..Len(tools) : i # j => tools[i] # tools[j]
            /\ Len(applied.ret.matchedPrompts) <= 12
            /\ fromQuestion # "none" => tools # <<>> /\ tools[1] = fromQuestion

\* "meta spend today" against the fourteen lines: all of them match, twelve are
\* returned, and the tool of the question comes before those of the lines.
C24_Witness ==
    /\ applied.fn = "retrieveRelatedPromptsAndTools"
    /\ applied.arg.message = Msg_MetaSpend
    /\ Len(corpus) = 14
    /\ Len(applied.ret.matchedPrompts) = 12
    /\ Len(applied.ret.tools) = 3
    /\ applied.ret.tools[1] = "get_meta_spend_today"

\* C25: a request sent with an x-meta-account-id header receives no tool result that
\* was computed for another account: every result of its payload that was made for
\* an account was made for the account of its header.
C25_TenantIsolation ==
    \A i \in Requests :
        hist[i].context.metaAccountId # "none" =>
            \A k \in 1..Len(hist[i].payload.tools) :
                hist[i].payload.tools[k].result.account
                    \in {"none", hist[i].context.metaAccountId}

\* Fallback data is allowed for the tool: ALLOW_FAKE_DATA is true and, for a
\* get_meta_ or get_instagram_ tool, ALLOW_MCP_META_FALLBACK is true as well.
FallbackConfigured(name) ==
    /\ "ALLOW_FAKE_DATA" \in env
    /\ name \in MetaTools \cup InstagramTools => "ALLOW_MCP_META_FALLBACK" \in env

C27_DirectToolUncached ==
    /\ \A i \in Requests :
           RunMatches(Trim(hist[i].msg)) =>
               /\ hist[i].after = hist[i].before
               /\ ~CacheHit(hist[i])
               /\ hist[i].payload.mode = <<"direct-tool">>
               /\ hist[i].msg[3] \in toolDefs => Len(hist[i].calls) = 1
    /\ \A e \in 1..Len(responseCache) : responseCache[e].value.mode # <<"direct-tool">>
    /\ \A i \in Requests : hist[i].payload.mode # <<"direct-tool", "-cache-hit">>

\* Two explicit runs of the same tool at the same instant with an entry of another
\* request in the cache: both call the tool.
C27_Witness ==
    \E i \in Requests : \E j \in Requests :
        /\ i < j
        /\ hist[i].msg = Msg_Run /\ hist[j].msg = Msg_Run
        /\ hist[i].at = hist[j].at
        /\ hist[i].before # <<>>
        /\ Len(hist[i].calls) = 1 /\ Len(hist[j].calls) = 1
        /\ hist[j].after = hist[i].before

\* C28: a request served from the cache leaves the cache as it was, the entry served
\* included (same timestamp, same payload); what it returns is the stored payload
\* with "-cache-hit" appended once to the stored mode, which itself does not end in
\* "-cache-hit"; the entry keeps the time of the request that was answered from
\* scratch, so hits do not extend its lifetime; no response has the suffix twice.
C28_HitLeavesEntry ==
    \A j \in Requests :
        LET o == hist[j]
            key == KeyOf(o.msg)
        IN  /\ CacheHit(o) =>
                /\ MapHas(o.before, key)
                /\ o.after = o.before
                /\ o.payload = [MapGet(o.before, key).value EXCEPT
                                   !.mode = Append(MapGet(o.before, key).value.mode, "-cache-hit")]
                /\ ~CacheHit([payload |-> MapGet(o.before, key).value])
                /\ o.at - MapGet(o.before, key).ts < RESPONSE_CACHE_TTL_MS
                /\ \E i \in 1..(j - 1) :
                       /\ ~CacheHit(hist[i])
                       /\ hist[i].at = MapGet(o.before, key).ts
                       /\ hist[i].payload = MapGet(o.before, key).value
            /\ Len(o.payload.mode) >= 2 =>
                   ~(/\ o.payload.mode[Len(o.payload.mode)] = "-cache-hit"
                     /\ o.payload.mode[Len(o.payload.mode) - 1] = "-cache-hit")

\* An entry served at the instant it was written and again a tick later, still
\* carrying the time of its writing.
C28_Witness ==
    \E j \in Requests : \E k \in Requests :
        /\ j < k
        /\ hist[j].msg = hist[k].msg
        /\ CacheHit(hist[j]) /\ CacheHit(hist[k])
        /\ hist[k].at > hist[j].at
        /\ MapGet(hist[k].after, KeyOf(hist[k].msg)).ts = hist[j].at

\* C29: every call of runMarketingAgent ends, with the text returned or with an
\* error thrown to the route, whatever the model answers.
C29_AgentTerminates == <>(agent.pc \in {"done", "failed"})

RECURSIVE SumCount(_)
SumCount(endpoints) ==
    IF endpoints = <<>> THEN 0 ELSE Head(endpoints).count + SumCount(Tail(endpoints))

RECURSIVE SumErrorCount(_)
SumErrorCount(endpoints) ==
    IF endpoints = <<>> THEN 0
    ELSE Head(endpoints).error_count + SumErrorCount(Tail(endpoints))

\* C30: after any sequence of recordRequestMetric and resetMetrics calls the
\* snapshot is consistent: totals.requests is the sum of the endpoint counts,
\* totals.errors the sum of the endpoint error counts, errors <= requests overall
\* and per endpoint; right after resetMetrics all of them are zero and the endpoint
\* table is empty.
C30_MetricsConsistent ==
    LET snapshot == getMetricsSnapshot(metrics)
    IN  /\ snapshot.totals.requests = SumCount(snapshot.endpoints)
        /\ snapshot.totals.errors = SumErrorCount(snapshot.endpoints)
        /\ snapshot.totals.errors <= snapshot.totals.requests
        /\ \A i \in 1..Len(snapshot.endpoints) :
               /\ snapshot.endpoints[i].error_count <= snapshot.endpoints[i].count
               /\ snapshot.endpoints[i].count >= 1
        /\ applied.fn = "resetMetrics" =>
               /\ snapshot.totals = [requests |-> 0, errors |-> 0]
               /\ snapshot.endpoints = <<>>

\* Three requests recorded on two endpoints, one of them an error, the method of
\* the last one in lower case; the snapshot lists the busier endpoint first.
C30_Witness ==
    /\ applied.fn = "recordRequestMetric"
    /\ applied.arg[1] = "get"
    /\ Len(metrics.byEndpoint) = 2
    /\ metrics.totalRequests = 3
    /\ metrics.totalErrors = 1
    /\ getMetricsSnapshot(metrics).endpoints[1].count = 2
    /\ getMetricsSnapshot(metrics).endpoints[1].endpoint = <<"GET", " ", "/api/chat">>
    /\ metrics.byEndpoint[1].endpoint = <<"POST", " ", "/health">>

=============================================================================
